---- MODULE Spec2Model ----
(***************************************************************************)
(* Model of the miamala_frank retail back office: shops, staff accounts,   *)
(* products, the per-user cart, sales with their line items and the        *)
(* ledgers, as stored in the relational database, and the request handlers *)
(* of apps/shops/views.py, apps/users/views.py and apps/miamala/views.py   *)
(* that read and write them.  One action is one HTTP request: decorators,  *)
(* view dispatch and service method together.  Where requests served at    *)
(* the same time are looked at (restock, checkout), one action is one      *)
(* request up to and including its next statement on the database.         *)
(*                                                                         *)
(* Decimal columns (qty, price, cost, amount, profit) hold whole numbers   *)
(* far below the 10-digit column limit, so that storing a value does not   *)
(* round it.  Text that a request carries and text that a response shows   *)
(* is the sequence of its characters.                                      *)
(***************************************************************************)
EXTENDS Integers, FiniteSets, Sequences, TLC

VARIABLES shops,      \* Shop rows:       id -> [abbrev]
          users,      \* CustomUser rows: id -> [shop, is_admin, is_active, deleted, username, phone, password]
          products,   \* Product rows:    id -> [shop, qty, price, cost, is_hidden, is_deleted, suffixes,
                      \*                        restock_date]
          cart,       \* Cart rows:       id -> [user, product, qty]
          sales,      \* Sales rows:      id -> [user, shop, amount, profit]
          items,      \* Sale_items rows: id -> [sale, product, price, qty, profit]
          ledger,     \* Selcompay/Lipanamba/Debts/Loans/Expenses rows:
                      \*                  id -> [kind, user, shop, deleted, name, amount, paid]
          seq,        \* next AutoField value of every table
          call        \* a call of a helper of utils/util_functions.py: its arguments, and
                      \* its result once it has returned; or, where requests are served
                      \* at the same time, request -> the local variables of its handler;
                      \* None where neither is looked at

vars == <<shops, users, products, cart, sales, items, ledger, seq, call>>

----------------------------------------------------------------------------
(* Bounds of the model *)

MaxShops    == 3     \* shop ids handed out
MaxUsers    == 2     \* user ids handed out
MaxProducts == 2     \* product ids handed out
MaxCartRows == 3     \* cart ids handed out
MaxSales    == 1     \* sale ids handed out
MaxLedger   == 1     \* ledger ids handed out
MaxStock    == 1     \* largest stock an admin form enters
MaxAddQty   == 1     \* largest quantity asked for in add-to-cart
MaxDays     == 2    \* the days on which requests arrive
MaxAmount   == 3    \* the largest amount and paid total of a ledger row
MaxPaid     == 1    \* the largest payment or further borrowing of one update
MaxLen      == 3    \* the longest text typed into a column's search box
MaxRequests == 2    \* requests that are served at the same time
MaxRows     == 4    \* the most rows of a listing, its largest start and page length

(* Program constants *)

MAIN_SHOP           == 1    \* shop_id == 1 in delete_shop
DEFAULT_LEDGER_USER == 2    \* default=2 of the ledger models' user column
DEFAULT_LEDGER_SHOP == 1    \* default=1 of the ledger models' shop column

AnonymousUser == 0          \* request.user of a request without a session
None          == 0          \* a NULL column

Abbrevs     == {"AA", "BB", "CC"}
Usernames   == {"Ann", "bob", "Bob", "CAT"}     \* as typed into the form
Phones      == {None, 701}
Prices      == {2, 3}
Costs       == {1}
StockValues == 0 .. MaxStock
AddQtys     == 0 .. MaxAddQty
Days        == 1 .. MaxDays     \* timezone.now().date()
LedgerKinds == {"Selcompay", "Debts"}     \* Lipanamba and Loans rows have the same columns

----------------------------------------------------------------------------
(* Tables *)

EmptyTable == [x \in {} |-> None]

Insert(t, id, row) == [x \in (DOMAIN t) \cup {id} |-> IF x = id THEN row ELSE t[x]]

Delete(t, ids) == [x \in (DOMAIN t) \ ids |-> t[x]]

Update(t, id, row) == [t EXCEPT ![id] = row]

\* sum of f[x] over the x in ids
RECURSIVE Sum(_, _)
Sum(f, ids) ==
    IF ids = {} THEN 0
    ELSE LET x == CHOOSE y \in ids : TRUE
         IN  f[x] + Sum(f, ids \ {x})

(* The database as one value, so that a handler is a function of it *)
DB == [shops |-> shops, users |-> users, products |-> products, cart |-> cart,
       sales |-> sales, items |-> items, ledger |-> ledger, seq |-> seq]

Response(d, r) == [db |-> d, res |-> r, names |-> {}]

----------------------------------------------------------------------------
(* Decorators *)

\* django.contrib.auth.decorators.login_required as used by every view
login_required(d, caller, view) ==
    IF caller = AnonymousUser THEN Response(d, "login_redirect") ELSE view

\* the admin flag not looked at: every signed-in caller passes
admin_required_any_user(d, caller, view) ==
    IF caller # AnonymousUser THEN view ELSE Response(d, "PermissionDenied")

admin_required(d, caller, view) ==
    IF caller # AnonymousUser /\ d.users[caller].is_admin
    THEN view
    ELSE Response(d, "PermissionDenied")

\* The users a session can resolve to: ModelBackend.get_user drops blocked accounts
Callers(d) == {AnonymousUser} \cup {u \in DOMAIN d.users : d.users[u].is_active}

----------------------------------------------------------------------------
(* Shop management: ShopManagementService and shops_requests *)

get_shop(d, shop_id) == IF shop_id \in DOMAIN d.shops THEN shop_id ELSE None

\* ShopForm.clean_abbrev: the abbreviation is unique among all shops
ShopForm_valid(d, abbrev) == \A s \in DOMAIN d.shops : d.shops[s].abbrev # abbrev

\* ShopUpdateForm.clean_abbrev: unique among the other shops
ShopUpdateForm_valid(d, shop_id, abbrev) ==
    \A s \in (DOMAIN d.shops) \ {shop_id} : d.shops[s].abbrev # abbrev

create_shop(d, abbrev) ==
    IF ShopForm_valid(d, abbrev)
    THEN Response([d EXCEPT !.shops = Insert(d.shops, d.seq.shop, [abbrev |-> abbrev]),
                            !.seq.shop = d.seq.shop + 1], "ok")
    ELSE Response(d, "invalid")

update_shop(d, shop_id, abbrev) ==
    IF get_shop(d, shop_id) = None THEN Response(d, "not_found")
    ELSE IF ShopUpdateForm_valid(d, shop_id, abbrev)
    THEN Response([d EXCEPT !.shops = Update(d.shops, shop_id, [abbrev |-> abbrev])], "ok")
    ELSE Response(d, "invalid")

(* Model.delete() of a Shop row: django's Collector follows every foreign   *)
(* key that points at a collected row.  on_delete=CASCADE collects the      *)
(* referring rows too, on_delete=PROTECT raises ProtectedError when there   *)
(* is any referring row; nothing is deleted unless collection succeeds.     *)
CascadeUsers(d, shop_id)    == {u \in DOMAIN d.users : d.users[u].shop = shop_id}
CascadeProducts(d, shop_id) == {p \in DOMAIN d.products : d.products[p].shop = shop_id}
CascadeSales(d, shop_id)    == {x \in DOMAIN d.sales : d.sales[x].shop = shop_id}
CascadeCart(d, shop_id)     == {c \in DOMAIN d.cart : d.cart[c].product \in CascadeProducts(d, shop_id)}
CascadeItems(d, shop_id)    == {i \in DOMAIN d.items :
                                   \/ d.items[i].product \in CascadeProducts(d, shop_id)
                                   \/ d.items[i].sale \in CascadeSales(d, shop_id)}

\* rows that refer to a collected row through an on_delete=PROTECT column
ProtectedRows(d, shop_id) ==
    [cart   |-> {c \in DOMAIN d.cart : d.cart[c].user \in CascadeUsers(d, shop_id)},
     sales  |-> {x \in DOMAIN d.sales : d.sales[x].user \in CascadeUsers(d, shop_id)},
     ledger |-> {l \in DOMAIN d.ledger : \/ d.ledger[l].user \in CascadeUsers(d, shop_id)
                                         \/ d.ledger[l].shop = shop_id}]

\* only the columns that point at the shop itself protect it
ProtectedError_shop_only(d, shop_id) ==
    \E l \in DOMAIN d.ledger : d.ledger[l].shop = shop_id

ProtectedError(d, shop_id) ==
    LET p == ProtectedRows(d, shop_id)
    IN  p.cart # {} \/ p.sales # {} \/ p.ledger # {}

Shop_delete(d, shop_id) ==
    [d EXCEPT !.shops    = Delete(d.shops, {shop_id}),
              !.users    = Delete(d.users, CascadeUsers(d, shop_id)),
              !.products = Delete(d.products, CascadeProducts(d, shop_id)),
              !.cart     = Delete(d.cart, CascadeCart(d, shop_id)),
              !.sales    = Delete(d.sales, CascadeSales(d, shop_id)),
              !.items    = Delete(d.items, CascadeItems(d, shop_id))]

\* the main shop deleted like any other
delete_shop_any(d, shop_id) ==
    IF get_shop(d, shop_id) = None THEN Response(d, "failed")
    ELSE IF ProtectedError(d, shop_id) THEN Response(d, "failed")
    ELSE Response(Shop_delete(d, shop_id), "ok")

delete_shop(d, shop_id) ==
    IF shop_id = MAIN_SHOP THEN Response(d, "main_shop")
    ELSE IF get_shop(d, shop_id) = None THEN Response(d, "failed")
    ELSE IF ProtectedError(d, shop_id) THEN Response(d, "failed")
    ELSE Response(Shop_delete(d, shop_id), "ok")

\* shops_requests, one operator per branch of its dispatch
shops_requests_create(d, caller, abbrev) ==
    login_required(d, caller, admin_required(d, caller, create_shop(d, abbrev)))

shops_requests_edit(d, caller, shop_id, abbrev) ==
    login_required(d, caller, admin_required(d, caller, update_shop(d, shop_id, abbrev)))

shops_requests_delete(d, caller, shop_id) ==
    login_required(d, caller, admin_required(d, caller, delete_shop(d, shop_id)))

----------------------------------------------------------------------------
(* Text: a str is the sequence of its characters *)

DigitChars == <<"0", "1", "2", "3", "4", "5", "6", "7", "8", "9">>

\* str.isdigit(): not empty, digits only
isdigit(text) ==
    Len(text) > 0 /\ \A i \in 1 .. Len(text) : \E k \in 1 .. 10 : DigitChars[k] = text[i]

DigitValue(char) == (CHOOSE k \in 1 .. 10 : DigitChars[k] = char) - 1

\* int() of a text of digits
RECURSIVE int(_)
int(text) ==
    IF text = <<>> THEN 0
    ELSE int(SubSeq(text, 1, Len(text) - 1)) * 10 + DigitValue(text[Len(text)])

\* str() of a number
RECURSIVE str(_)
str(n) ==
    IF n < 0 THEN <<"-">> \o str(0 - n)
    ELSE IF n < 10 THEN <<DigitChars[n + 1]>>
    ELSE str(n \div 10) \o <<DigitChars[(n % 10) + 1]>>

\* Decimal(text) for whole quantities: an optional sign and digits, anything
\* else raises InvalidOperation
InvalidOperation == [ok |-> FALSE, value |-> 0]

\* every signed text read as its magnitude
Decimal_unsigned(text) ==
    IF isdigit(text) THEN [ok |-> TRUE, value |-> int(text)]
    ELSE IF Len(text) > 1 /\ text[1] \in {"+", "-"} /\ isdigit(Tail(text))
         THEN [ok |-> TRUE, value |-> int(Tail(text))]
    ELSE InvalidOperation

Decimal(text) ==
    IF isdigit(text) THEN [ok |-> TRUE, value |-> int(text)]
    ELSE IF Len(text) > 1 /\ text[1] = "+" /\ isdigit(Tail(text))
         THEN [ok |-> TRUE, value |-> int(Tail(text))]
    ELSE IF Len(text) > 1 /\ text[1] = "-" /\ isdigit(Tail(text))
         THEN [ok |-> TRUE, value |-> 0 - int(Tail(text))]
    ELSE InvalidOperation

\* str.lstrip(char), str.rstrip(char), and str.strip() of blanks
RECURSIVE lstrip(_, _)
lstrip(text, char) ==
    IF text # <<>> /\ text[1] = char THEN lstrip(Tail(text), char) ELSE text

RECURSIVE rstrip(_, _)
rstrip(text, char) ==
    IF text # <<>> /\ text[Len(text)] = char
    THEN rstrip(SubSeq(text, 1, Len(text) - 1), char)
    ELSE text

strip(text) == rstrip(lstrip(text, " "), " ")

\* the number as it is, its sign kept
abs_with_sign(n) == n

abs(n) == IF n < 0 THEN 0 - n ELSE n

(* Decimal values that have a fraction are counted in hundredths, the scale *)
(* of the Decimal columns: 150050 is 1500.50.                               *)

\* f"{n:,}" for n >= 0: groups of three digits, a comma between them
RECURSIVE Grouped(_)
Grouped(n) ==
    IF n < 1000 THEN str(n)
    ELSE Grouped(n \div 1000) \o <<",", DigitChars[((n \div 100) % 10) + 1],
                                   DigitChars[((n \div 10) % 10) + 1],
                                   DigitChars[(n % 10) + 1]>>

Sign(cents) == IF cents < 0 THEN <<"-">> ELSE <<>>

\* f"{value:.1f}" of a value that has no second decimal, and f"{value:.2f}"
Fixed1(cents) ==
    Sign(cents) \o str(abs(cents) \div 100) \o <<".", DigitChars[((abs(cents) \div 10) % 10) + 1]>>

Fixed2(cents) ==
    Sign(cents) \o str(abs(cents) \div 100)
                \o <<".", DigitChars[((abs(cents) \div 10) % 10) + 1],
                     DigitChars[(abs(cents) % 10) + 1]>>

\* one decimal shown for every value that is not whole
format_number_one_decimal(cents) ==
    IF abs(cents) % 100 = 0 THEN Sign(cents) \o Grouped(abs(cents) \div 100)
    ELSE rstrip(rstrip(Fixed1(cents), "0"), ".")

format_number(cents) ==
    IF abs(cents) % 100 = 0                          \* value == value.to_integral()
    THEN Sign(cents) \o Grouped(abs(cents) \div 100)
    ELSE IF abs(cents) % 10 = 0                      \* value * 10 == int(value * 10)
    THEN rstrip(rstrip(Fixed1(cents), "0"), ".")
    ELSE rstrip(rstrip(Fixed2(cents), "0"), ".")

\* str.replace(char, ''), and str.replace(char, '', 1)
replace(text, char) == SelectSeq(text, LAMBDA c : c # char)

replace_first(text, char) ==
    IF \E i \in 1 .. Len(text) : text[i] = char
    THEN LET first == CHOOSE i \in 1 .. Len(text) :
                          text[i] = char /\ \A j \in 1 .. (i - 1) : text[j] # char
         IN  SubSeq(text, 1, first - 1) \o SubSeq(text, first + 1, Len(text))
    ELSE text

\* needle in hay
InText(needle, hay) ==
    \E i \in 0 .. (Len(hay) - Len(needle)) : SubSeq(hay, i + 1, i + Len(needle)) = needle

RECURSIVE Pow10(_)
Pow10(k) == IF k = 0 THEN 1 ELSE 10 * Pow10(k - 1)

\* float() of digits with at most one point among them: num / 10^scale
float(text) ==
    IF \E i \in 1 .. Len(text) : text[i] = "."
    THEN [num   |-> int(replace(text, ".")),
          scale |-> Len(text) - (CHOOSE i \in 1 .. Len(text) : text[i] = ".")]
    ELSE [num |-> int(text), scale |-> 0]

\* the bounds of the two ranges left out of them
filter_items_open_ranges(column_search, cents) ==
    LET column_value == Fixed2(cents)
        after  == replace(Tail(column_search), ",")
        before == replace(SubSeq(column_search, 1, Len(column_search) - 1), ",")
        plain  == replace(column_search, ",")
    IN  IF column_search[1] = "-" /\ isdigit(after) THEN cents < 100 * int(after)
        ELSE IF column_search[Len(column_search)] = "-" /\ isdigit(before)
             THEN cents > 100 * int(before)
        ELSE IF isdigit(replace_first(plain, "."))
             THEN cents * Pow10(float(plain).scale) = 100 * float(plain).num
        ELSE InText(column_search, column_value)

(* filter_items with filter_type 'numeric', for a search text that is not  *)
(* empty and the Decimal value of the item's column, in hundredths.  The   *)
(* texts of the model have no letters, so lower() leaves them as they are, *)
(* and a column value always reads as a number, so float() of it does not  *)
(* raise.                                                                  *)
filter_items(column_search, cents) ==
    LET column_value == Fixed2(cents)             \* str(item.get(column_field))
        after  == replace(Tail(column_search), ",")
        before == replace(SubSeq(column_search, 1, Len(column_search) - 1), ",")
        plain  == replace(column_search, ",")
    IN  IF column_search[1] = "-" /\ isdigit(after) THEN cents <= 100 * int(after)
        ELSE IF column_search[Len(column_search)] = "-" /\ isdigit(before)
             THEN cents >= 100 * int(before)
        ELSE IF isdigit(replace_first(plain, "."))
             THEN cents * Pow10(float(plain).scale) = 100 * float(plain).num
        ELSE InText(column_search, column_value)  \* return column_search_lower in column_value

----------------------------------------------------------------------------
(* Product management: ProductManagementService and products_requests *)

\* the lookup by id alone, deleted products found as well
get_active_product_with_deleted(d, product_id) ==
    IF product_id \in DOMAIN d.products THEN product_id ELSE None

get_active_product(d, product_id) ==
    IF product_id \in DOMAIN d.products /\ ~d.products[product_id].is_deleted
    THEN product_id ELSE None

\* ProductForm: the shop is an existing shop, qty >= 1, cost >= 0, price >= 0
ProductForm_valid(d, shop_id, qty, price, cost) ==
    shop_id \in DOMAIN d.shops /\ qty >= 1 /\ cost >= 0 /\ price >= 0

\* ProductUpdateForm: as ProductForm, but qty >= 0
ProductUpdateForm_valid(d, shop_id, qty, price, cost) ==
    shop_id \in DOMAIN d.shops /\ qty >= 0 /\ cost >= 0 /\ price >= 0

create_product(d, today, shop_id, qty, price, cost) ==
    IF ProductForm_valid(d, shop_id, qty, price, cost)
    THEN Response([d EXCEPT !.products = Insert(d.products, d.seq.product,
                                [shop |-> shop_id, qty |-> qty, price |-> price, cost |-> cost,
                                 is_hidden |-> FALSE, is_deleted |-> FALSE, suffixes |-> 0,
                                 restock_date |-> today]),
                            !.seq.product = d.seq.product + 1], "ok")
    ELSE Response(d, "invalid")

update_product(d, product_id, shop_id, qty, price, cost) ==
    IF get_active_product(d, product_id) = None THEN Response(d, "not_found")
    ELSE IF ProductUpdateForm_valid(d, shop_id, qty, price, cost)
    THEN Response([d EXCEPT !.products[product_id].shop = shop_id,
                            !.products[product_id].qty = qty,
                            !.products[product_id].price = price,
                            !.products[product_id].cost = cost], "ok")
    ELSE Response(d, "invalid")

delete_product(d, product_id) ==
    IF get_active_product(d, product_id) = None THEN Response(d, "failed")
    ELSE Response([d EXCEPT !.products[product_id].is_deleted = TRUE,
                            !.products[product_id].suffixes = @ + 1], "ok")

toggle_product_status(d, product_id) ==
    IF get_active_product(d, product_id) = None THEN Response(d, "failed")
    ELSE Response([d EXCEPT !.products[product_id].is_hidden = ~@], "ok")

update_product_quantity(d, today, product_id, new_qty) ==
    LET qty_value == Decimal(new_qty)
    IN  IF ~qty_value.ok THEN Response(d, "failed")               \* except Exception
        ELSE IF qty_value.value < 1 THEN Response(d, "invalid")
        ELSE IF get_active_product(d, product_id) = None THEN Response(d, "failed")
        ELSE Response([d EXCEPT !.products[product_id].qty = @ + qty_value.value,
                                !.products[product_id].restock_date = today], "ok")

(* update_product_quantity as the two accesses to the database that it     *)
(* makes: the SELECT of _get_active_product, and the UPDATE of save(),      *)
(* which writes every column of the instance that the SELECT has loaded.    *)
restock_load(d, product_id, new_qty) ==
    LET qty_value == Decimal(new_qty)
    IN  IF ~qty_value.ok THEN Response(d, "failed")               \* except Exception
        ELSE IF qty_value.value < 1 THEN Response(d, "invalid")
        ELSE IF get_active_product(d, product_id) = None THEN Response(d, "failed")
        ELSE [db |-> d, res |-> "loaded", names |-> {}, product_id |-> product_id,
              product |-> d.products[product_id], qty_value |-> qty_value.value]

\* the stock raised where it is stored: UPDATE ... SET qty = qty + qty_value
restock_save_in_place(d, frame, today) ==
    Response([d EXCEPT !.products[frame.product_id].qty = @ + frame.qty_value,
                       !.products[frame.product_id].restock_date = today], "ok")

restock_save(d, frame, today) ==
    Response([d EXCEPT !.products[frame.product_id] =
                           [frame.product EXCEPT !.qty = @ + frame.qty_value,
                                                 !.restock_date = today]], "ok")

\* products_requests, one operator per branch of its dispatch
products_requests_create(d, caller, today, shop_id, qty, price, cost) ==
    login_required(d, caller, admin_required(d, caller,
        create_product(d, today, shop_id, qty, price, cost)))

products_requests_edit(d, caller, product_id, shop_id, qty, price, cost) ==
    login_required(d, caller, admin_required(d, caller,
        update_product(d, product_id, shop_id, qty, price, cost)))

products_requests_delete(d, caller, product_id) ==
    login_required(d, caller, admin_required(d, caller, delete_product(d, product_id)))

products_requests_block(d, caller, product_id) ==
    login_required(d, caller, admin_required(d, caller, toggle_product_status(d, product_id)))

\* an empty qty_new is no restock: the request falls to the last branch, a
\* creation from a form that has no fields
products_requests_qty(d, caller, today, product_id, new_qty) ==
    login_required(d, caller, admin_required(d, caller,
        IF new_qty = <<>> THEN create_product(d, today, None, 0, 0, 0)
        ELSE update_product_quantity(d, today, product_id, new_qty)))

\* the qty branch up to the SELECT; no form is bound where qty_new is empty
products_requests_qty_load(d, caller, product_id, new_qty) ==
    login_required(d, caller, admin_required(d, caller,
        IF new_qty = <<>> THEN create_product(d, None, None, 0, 0, 0)
        ELSE restock_load(d, product_id, new_qty)))

----------------------------------------------------------------------------
(* Point of sale: SalesManagementService and sales_actions *)

\* Cart.objects.filter(user=...)
CartOf(d, user) == {c \in DOMAIN d.cart : d.cart[c].user = user}

\* update_or_create in the place of get_or_create: the row takes the new quantity
Cart_update_or_create(d, caller, product_id, qty) ==
    LET found == {c \in CartOf(d, caller) : d.cart[c].product = product_id}
    IN  IF Cardinality(found) > 1 THEN Response(d, "failed")
        ELSE IF found # {}
             THEN Response([d EXCEPT !.cart = [c \in DOMAIN d.cart |->
                                IF c \in found THEN [d.cart[c] EXCEPT !.qty = qty]
                                ELSE d.cart[c]]], "ok")
        ELSE Response([d EXCEPT !.cart = Insert(d.cart, d.seq.cart,
                                    [user |-> caller, product |-> product_id, qty |-> qty]),
                                !.seq.cart = d.seq.cart + 1], "ok")

\* Cart.objects.get_or_create(product=, user=, defaults={'qty': })
Cart_get_or_create(d, caller, product_id, qty) ==
    LET found == {c \in CartOf(d, caller) : d.cart[c].product = product_id}
    IN  IF Cardinality(found) > 1 THEN Response(d, "failed")   \* MultipleObjectsReturned
        ELSE IF found # {} THEN Response(d, "ok")              \* get: the row is left as it is
        ELSE Response([d EXCEPT !.cart = Insert(d.cart, d.seq.cart,
                                    [user |-> caller, product |-> product_id, qty |-> qty]),
                                !.seq.cart = d.seq.cart + 1], "ok")

add_to_cart(d, caller, product_id, qty) ==
    IF get_active_product(d, product_id) = None THEN Response(d, "not_found")
    ELSE IF qty > d.products[product_id].qty THEN Response(d, "exceeded")
    ELSE Cart_get_or_create(d, caller, product_id, qty)

\* add_to_cart for the qty of the request as it arrives: product_qty = Decimal(qty),
\* and any text that is no number ends in the except branch
add_to_cart_text(d, caller, product_id, qty) ==
    LET product_qty == Decimal(qty)
    IN  IF ~product_qty.ok THEN Response(d, "failed")
        ELSE add_to_cart(d, caller, product_id, product_qty.value)

delete_cart_item(d, caller, cart_id) ==
    IF cart_id \in CartOf(d, caller)
    THEN Response([d EXCEPT !.cart = Delete(d.cart, {cart_id})], "ok")
    ELSE Response(d, "failed")

clear_cart(d, caller) ==
    Response([d EXCEPT !.cart = Delete(d.cart, CartOf(d, caller))], "ok")

\* Meta.ordering = ['-qty'] of Cart; rows of equal qty come in rowid order
RECURSIVE CartOrder(_, _)
CartOrder(d, rows) ==
    IF rows = {} THEN <<>>
    ELSE LET first == CHOOSE c \in rows : \A o \in rows :
                          \/ d.cart[c].qty > d.cart[o].qty
                          \/ d.cart[c].qty = d.cart[o].qty /\ c <= o
         IN  <<first>> \o CartOrder(d, rows \ {first})

\* the amount taken from the cost price
LineAmount_at_cost(prod, qty) == prod.cost * qty

\* one cart line's share of grand_amount and of profit_count
LineAmount(prod, qty) == prod.price * qty

\* the profit taken for the price, the cost forgotten
LineProfit_without_cost(prod, qty) == prod.price * qty

LineProfit(prod, qty) == (prod.price - prod.cost) * qty

\* the cart rows that ask for more than the product has in stock
ShortLines(d, rows) == {c \in rows : d.cart[c].qty > d.products[d.cart[c].product].qty}

\* cart_shops: the shops of the products in the cart
CartShops(d, rows) == {d.products[d.cart[c].product].shop : c \in rows}

\* the stock not checked at all
CheckoutCheck_without_stock(d, rows) ==
    IF rows = {} THEN "empty"
    ELSE IF Cardinality(CartShops(d, rows)) > 1 THEN "same_shop"
    ELSE "ok"

\* the stock checked before the shops
CheckoutCheck_stock_first(d, rows) ==
    IF rows = {} THEN "empty"
    ELSE IF ShortLines(d, rows) # {} THEN "no_stock"
    ELSE IF Cardinality(CartShops(d, rows)) > 1 THEN "same_shop"
    ELSE "ok"

\* the checks of checkout in the order the code makes them
CheckoutCheck(d, rows) ==
    IF rows = {} THEN "empty"
    ELSE IF Cardinality(CartShops(d, rows)) > 1 THEN "same_shop"
    ELSE IF ShortLines(d, rows) # {} THEN "no_stock"
    ELSE "ok"

\* the second loop of checkout over the rows read before it: one line item per
\* row, the stock written from the product instance loaded in the first loop
RECURSIVE CheckoutLines(_, _, _, _)
CheckoutLines(d, d0, sale_id, rows) ==
    IF rows = <<>> THEN d
    ELSE LET c    == Head(rows)
             line == d0.cart[c]
             prod == d0.products[line.product]
             d1   == [d EXCEPT
                        !.items = Insert(d.items, d.seq.item,
                                    [sale |-> sale_id, product |-> line.product,
                                     price |-> prod.price, qty |-> line.qty,
                                     profit |-> LineProfit(prod, line.qty)]),
                        !.seq.item = d.seq.item + 1,
                        !.products = Update(d.products, line.product,
                                        [prod EXCEPT !.qty = prod.qty - line.qty]),
                        !.cart = Delete(d.cart, {c})]
         IN  CheckoutLines(d1, d0, sale_id, Tail(rows))

checkout(d, caller) ==
    LET full_cart    == CartOf(d, caller)
        qty(c)       == d.cart[c].qty
        prod(c)      == d.products[d.cart[c].product]
        grand_amount == Sum([c \in full_cart |-> LineAmount(prod(c), qty(c))], full_cart)
        profit_count == Sum([c \in full_cart |-> LineProfit(prod(c), qty(c))], full_cart)
        check        == CheckoutCheck(d, full_cart)
    IN  IF check = "no_stock"
        THEN [db |-> d, res |-> check,
              names |-> {d.cart[c].product : c \in ShortLines(d, full_cart)}]
        ELSE IF check # "ok" THEN Response(d, check)
        ELSE LET sale_id == d.seq.sale
                 d1 == [d EXCEPT !.sales = Insert(d.sales, sale_id,
                                     [user |-> caller,
                                      shop |-> CHOOSE s \in CartShops(d, full_cart) : TRUE,
                                      amount |-> grand_amount, profit |-> profit_count]),
                                 !.seq.sale = sale_id + 1]
             IN  Response(CheckoutLines(d1, d, sale_id, CartOrder(d, full_cart)), "ok")

(* checkout as the accesses to the database that it makes.  The SELECTs of *)
(* the cart and of every row's product, with the checks on what they have   *)
(* read; the INSERT of the sale; and for every row of the cart the INSERT   *)
(* of its line, the UPDATE of save(), which writes every column of the      *)
(* product instance that was loaded, and the DELETE of the row.  The frame  *)
(* holds the local variables: rows is what the second loop has still to do. *)
checkout_load(d, caller) ==
    LET full_cart == CartOf(d, caller)
        qty(c)    == d.cart[c].qty
        prod(c)   == d.products[d.cart[c].product]
        check     == CheckoutCheck(d, full_cart)
    IN  IF check = "no_stock"
        THEN [db |-> d, res |-> check,
              names |-> {d.cart[c].product : c \in ShortLines(d, full_cart)}]
        ELSE IF check # "ok" THEN Response(d, check)
        ELSE [db |-> d, res |-> "loaded", names |-> {},
              frame |-> [user         |-> caller,
                         rows         |-> CartOrder(d, full_cart),
                         lines        |-> [c \in full_cart |-> d.cart[c]],
                         prods        |-> [c \in full_cart |-> prod(c)],
                         grand_amount |-> Sum([c \in full_cart |-> LineAmount(prod(c), qty(c))],
                                              full_cart),
                         profit_count |-> Sum([c \in full_cart |-> LineProfit(prod(c), qty(c))],
                                              full_cart),
                         shop         |-> CHOOSE x \in CartShops(d, full_cart) : TRUE,
                         sale_id      |-> None]]

\* Sales.objects.create(...): the frame of the result knows the new sale
checkout_header(d, frame) ==
    [db    |-> [d EXCEPT !.sales = Insert(d.sales, d.seq.sale,
                                      [user |-> frame.user, shop |-> frame.shop,
                                       amount |-> frame.grand_amount,
                                       profit |-> frame.profit_count]),
                         !.seq.sale = d.seq.sale + 1],
     res   |-> "ok", names |-> {},
     frame |-> [frame EXCEPT !.sale_id = d.seq.sale]]

\* Sale_items.objects.create(...) for the first of the rows to do; the sale
\* and the product that it refers to must still be there (IntegrityError)
checkout_item(d, frame) ==
    LET c    == Head(frame.rows)
        line == frame.lines[c]
        prod == frame.prods[c]
    IN  IF frame.sale_id \notin DOMAIN d.sales \/ line.product \notin DOMAIN d.products
        THEN Response(d, "failed")
        ELSE Response([d EXCEPT !.items = Insert(d.items, d.seq.item,
                                    [sale |-> frame.sale_id, product |-> line.product,
                                     price |-> prod.price, qty |-> line.qty,
                                     profit |-> LineProfit(prod, line.qty)]),
                                !.seq.item = d.seq.item + 1], "ok")

\* the stock lowered where it is stored: UPDATE ... SET qty = qty - item.qty
checkout_save_in_place(d, frame) ==
    LET c == Head(frame.rows)
    IN  Response([d EXCEPT !.products[frame.lines[c].product].qty = @ - frame.lines[c].qty],
                 "ok")

\* item.product.qty -= item.qty; item.product.save()
checkout_save(d, frame) ==
    LET c    == Head(frame.rows)
        line == frame.lines[c]
        prod == frame.prods[c]
    IN  Response([d EXCEPT !.products = Insert(d.products, line.product,
                                            [prod EXCEPT !.qty = prod.qty - line.qty])], "ok")

\* item.delete(), and the next row
checkout_delete(d, frame) ==
    [db    |-> [d EXCEPT !.cart = Delete(d.cart, {Head(frame.rows)})],
     res   |-> "ok", names |-> {},
     frame |-> [frame EXCEPT !.rows = Tail(frame.rows)]]

\* all that checkout has written taken back, as transaction.atomic() would
checkout_except_rollback(d, frame) ==
    LET written == {c \in DOMAIN frame.lines : \A k \in 1 .. Len(frame.rows) : frame.rows[k] # c}
                       \cup (IF frame.rows = <<>> THEN {} ELSE {Head(frame.rows)})
    IN  Response([d EXCEPT
                    !.sales    = Delete(d.sales, {frame.sale_id}),
                    !.items    = Delete(d.items, {i \in DOMAIN d.items : d.items[i].sale = frame.sale_id}),
                    !.products = [q \in DOMAIN d.products |->
                                     IF \E c \in written : frame.lines[c].product = q
                                     THEN frame.prods[CHOOSE c \in written :
                                                         frame.lines[c].product = q]
                                     ELSE d.products[q]],
                    !.cart     = [c \in DOMAIN d.cart \cup written |->
                                     IF c \in written THEN frame.lines[c] ELSE d.cart[c]]],
                 "failed")

\* except Exception: the failure is logged and answered, nothing is taken back
checkout_except(d, frame) == Response(d, "failed")

\* the rest of the second loop, run without a break
RECURSIVE checkout_rest(_, _)
checkout_rest(d, frame) ==
    IF frame.rows = <<>> THEN d
    ELSE LET d1 == checkout_item(d, frame).db
             d2 == checkout_save(d1, frame).db
             d3 == checkout_delete(d2, frame)
         IN  checkout_rest(d3.db, d3.frame)

\* Sale_items.objects.filter(sale=...)
ItemsOf(d, sale_id) == {i \in DOMAIN d.items : d.items[i].sale = sale_id}

\* the sale kept when its last line goes
remove_sale_item_keeps_sale(d, item_id) ==
    IF item_id \notin DOMAIN d.items THEN Response(d, "failed")
    ELSE LET item == d.items[item_id]
         IN  Response([d EXCEPT !.products[item.product].qty = @ + item.qty,
                                !.sales[item.sale].amount = @ - item.price * item.qty,
                                !.items = Delete(d.items, {item_id})], "ok")

remove_sale_item(d, item_id) ==
    IF item_id \notin DOMAIN d.items THEN Response(d, "failed")
    ELSE LET item == d.items[item_id]
             d1   == [d EXCEPT !.products[item.product].qty = @ + item.qty,
                               !.sales[item.sale].amount = @ - item.price * item.qty,
                               !.items = Delete(d.items, {item_id})]
         IN  IF ItemsOf(d1, item.sale) = {}
             THEN Response([d1 EXCEPT !.sales = Delete(d1.sales, {item.sale})], "ok_sale_deleted")
             ELSE Response(d1, "ok")

\* the lines deleted and their stock not given back
RECURSIVE RestoreLines_without_stock(_, _)
RestoreLines_without_stock(d, rows) ==
    IF rows = {} THEN d
    ELSE LET i == CHOOSE r \in rows : \A o \in rows : r <= o
         IN  RestoreLines_without_stock([d EXCEPT !.items = Delete(d.items, {i})], rows \ {i})

\* the loop of delete_sale: every line reloads its product and gives its qty back
RECURSIVE RestoreLines(_, _)
RestoreLines(d, rows) ==
    IF rows = {} THEN d
    ELSE LET i    == CHOOSE r \in rows : \A o \in rows : r <= o
             item == d.items[i]
         IN  RestoreLines([d EXCEPT !.products[item.product].qty = @ + item.qty,
                                    !.items = Delete(d.items, {i})],
                          rows \ {i})

delete_sale(d, sale_id) ==
    IF sale_id \notin DOMAIN d.sales THEN Response(d, "failed")
    ELSE LET d1 == RestoreLines(d, ItemsOf(d, sale_id))
         IN  Response([d1 EXCEPT !.sales = Delete(d1.sales, {sale_id})], "ok")

\* sales_actions, one operator per branch of its dispatch
sales_actions_cart_add(d, caller, product_id, qty) ==
    login_required(d, caller, add_to_cart(d, caller, product_id, qty))

sales_actions_cart_add_text(d, caller, product_id, qty) ==
    login_required(d, caller, add_to_cart_text(d, caller, product_id, qty))

sales_actions_cart_delete(d, caller, cart_id) ==
    login_required(d, caller, delete_cart_item(d, caller, cart_id))

sales_actions_clear_cart(d, caller) ==
    login_required(d, caller, clear_cart(d, caller))

sales_actions_checkout(d, caller) ==
    login_required(d, caller, checkout(d, caller))

\* the checkout branch up to the checks of checkout
sales_actions_checkout_load(d, caller) ==
    login_required(d, caller, checkout_load(d, caller))

sales_actions_item_remove(d, caller, item_id) ==
    login_required(d, caller, remove_sale_item(d, item_id))

sales_actions_sales_delete(d, caller, sale_id) ==
    login_required(d, caller, delete_sale(d, sale_id))

----------------------------------------------------------------------------
(* User management: UserManagementService, AuthenticationService,          *)
(* users_requests and user_profile_page                                    *)

\* clean_username: username[0].upper() + username[1:].lower(), on the names of the model
Capitalize(username) ==
    CASE username \in {"ann", "Ann", "ANN"} -> "Ann"
      [] username \in {"bob", "Bob", "BOB"} -> "Bob"
      [] username \in {"cat", "Cat", "CAT"} -> "Cat"
      [] OTHER                              -> username

\* the password taken as the username is written
Upper_as_written(username) == username

\* str.upper() on the names of the model
Upper(username) ==
    CASE username \in {"ann", "Ann", "ANN"} -> "ANN"
      [] username \in {"bob", "Bob", "BOB"} -> "BOB"
      [] username \in {"cat", "Cat", "CAT"} -> "CAT"
      [] OTHER                              -> username

\* the deleted flag not looked at
get_active_user_with_deleted(d, user_id) ==
    IF user_id \in DOMAIN d.users /\ ~d.users[user_id].is_admin THEN user_id ELSE None

get_active_user(d, user_id) ==
    IF /\ user_id \in DOMAIN d.users
       /\ ~d.users[user_id].deleted
       /\ ~d.users[user_id].is_admin
    THEN user_id ELSE None

\* UserRegistrationForm: clean_username, clean_phone and the shop choice
UserRegistrationForm_valid(d, username, phone, shop_id) ==
    /\ \A u \in DOMAIN d.users : d.users[u].username # username
    /\ phone # None =>
          \A u \in DOMAIN d.users : ~(d.users[u].phone = phone /\ ~d.users[u].deleted)
    /\ shop_id \in DOMAIN d.shops

\* UserUpdateForm: the same checks with the updated row left out
UserUpdateForm_valid(d, user_id, username, phone, shop_id) ==
    /\ \A u \in (DOMAIN d.users) \ {user_id} : d.users[u].username # username
    /\ phone # None =>
          \A u \in (DOMAIN d.users) \ {user_id} :
              ~(d.users[u].phone = phone /\ ~d.users[u].deleted)
    /\ shop_id \in DOMAIN d.shops

create_user(d, username, phone, shop_id) ==
    LET cleaned == Capitalize(username)
    IN  IF UserRegistrationForm_valid(d, cleaned, phone, shop_id)
        THEN Response([d EXCEPT !.users = Insert(d.users, d.seq.user,
                                    [shop |-> shop_id, is_admin |-> FALSE, is_active |-> TRUE,
                                     deleted |-> FALSE, username |-> cleaned, phone |-> phone,
                                     password |-> Upper(cleaned)]),
                                !.seq.user = d.seq.user + 1], "ok")
        ELSE Response(d, "invalid")

update_user(d, user_id, username, phone, shop_id) ==
    IF get_active_user(d, user_id) = None THEN Response(d, "not_found")
    ELSE IF UserUpdateForm_valid(d, user_id, Capitalize(username), phone, shop_id)
    THEN Response([d EXCEPT !.users[user_id].username = Capitalize(username),
                            !.users[user_id].phone = phone,
                            !.users[user_id].shop = shop_id], "ok")
    ELSE Response(d, "invalid")

delete_user(d, user_id) ==
    IF get_active_user(d, user_id) = None THEN Response(d, "failed")
    ELSE Response([d EXCEPT !.cart = Delete(d.cart, CartOf(d, user_id)),
                            !.users[user_id].deleted = TRUE], "ok")

toggle_user_status(d, user_id) ==
    IF get_active_user(d, user_id) = None THEN Response(d, "failed")
    ELSE Response([d EXCEPT !.users[user_id].is_active = ~@], "ok")

reset_user_password(d, user_id) ==
    IF get_active_user(d, user_id) = None THEN Response(d, "failed")
    ELSE Response([d EXCEPT !.users[user_id].password = Upper(d.users[user_id].username)], "ok")

\* the contact taken without a look at the other accounts
update_user_contact_unchecked(d, caller, new_contact) ==
    Response([d EXCEPT !.users[caller].phone = new_contact], "ok")

update_user_contact(d, caller, new_contact) ==
    IF \E u \in (DOMAIN d.users) \ {caller} :
           d.users[u].phone = new_contact /\ ~d.users[u].deleted
    THEN Response(d, "taken")
    ELSE Response([d EXCEPT !.users[caller].phone = new_contact], "ok")

change_user_password(d, caller, old_password, new_password) ==
    IF old_password # d.users[caller].password THEN Response(d, "incorrect")
    ELSE Response([d EXCEPT !.users[caller].password = new_password], "ok")

\* users_requests, one operator per branch of its dispatch
users_requests_create(d, caller, username, phone, shop_id) ==
    login_required(d, caller, admin_required(d, caller,
        create_user(d, username, phone, shop_id)))

users_requests_edit(d, caller, user_id, username, phone, shop_id) ==
    login_required(d, caller, admin_required(d, caller,
        update_user(d, user_id, username, phone, shop_id)))

users_requests_delete(d, caller, user_id) ==
    login_required(d, caller, admin_required(d, caller, delete_user(d, user_id)))

users_requests_block(d, caller, user_id) ==
    login_required(d, caller, admin_required(d, caller, toggle_user_status(d, user_id)))

users_requests_reset(d, caller, user_id) ==
    login_required(d, caller, admin_required(d, caller, reset_user_password(d, user_id)))

\* user_profile_page (POST), one operator per branch of its dispatch
user_profile_page_contact(d, caller, new_contact) ==
    login_required(d, caller, update_user_contact(d, caller, new_contact))

user_profile_page_update(d, caller, username, phone, shop_id) ==
    login_required(d, caller, update_user(d, caller, username, phone, shop_id))

user_profile_page_password(d, caller, old_password, new_password) ==
    login_required(d, caller, change_user_password(d, caller, old_password, new_password))

----------------------------------------------------------------------------
(* Ledgers: the services of apps/miamala/views.py.  A row of every ledger *)
(* is [kind, user, shop, deleted, name, amount, paid]; name is the title   *)
(* of an expense, paid is 0 where the ledger has no such column.           *)

\* Selcompay/Lipanamba/Debts/Loans .objects.create(name, amount, description):
\* user and shop take the column defaults, which must name existing rows
create_transaction(d, kind, names, amount) ==
    LET trans_names  == strip(names)
        trans_amount == Decimal(amount)
    IN  IF Len(trans_names) < 3 THEN Response(d, "invalid")
        ELSE IF /\ trans_amount.ok
                /\ DEFAULT_LEDGER_USER \in DOMAIN d.users
                /\ DEFAULT_LEDGER_SHOP \in DOMAIN d.shops
        THEN Response([d EXCEPT !.ledger = Insert(d.ledger, d.seq.ledger,
                                    [kind |-> kind, user |-> DEFAULT_LEDGER_USER,
                                     shop |-> DEFAULT_LEDGER_SHOP, deleted |-> FALSE,
                                     name |-> trans_names, amount |-> trans_amount.value,
                                     paid |-> 0]),
                                !.seq.ledger = d.seq.ledger + 1], "ok")
        ELSE Response(d, "failed")

\* Model.objects.get(id=) of the ledger of the given kind
get_ledger_row(d, kind, row_id) ==
    IF row_id \in DOMAIN d.ledger /\ d.ledger[row_id].kind = kind THEN row_id ELSE None

\* every payment booked on the paid total, whatever its sign
update_debt_all_paid(d, kind, debt_id, names, paid) ==
    LET debt_names == strip(names)
        debt_paid  == Decimal(paid)
    IN  IF get_ledger_row(d, kind, debt_id) = None THEN Response(d, "not_found")
        ELSE IF Len(debt_names) < 3 THEN Response(d, "invalid")
        ELSE IF paid = <<>> THEN Response([d EXCEPT !.ledger[debt_id].name = debt_names], "ok")
        ELSE IF ~debt_paid.ok THEN Response(d, "failed")
        ELSE Response([d EXCEPT !.ledger[debt_id].name = debt_names,
                                !.ledger[debt_id].paid = @ + abs(debt_paid.value)], "ok")

\* DebtsService.update_debt and LoansService.update_loan
update_debt(d, kind, debt_id, names, paid) ==
    LET debt_names == strip(names)
        debt_paid  == Decimal(paid)
    IN  IF get_ledger_row(d, kind, debt_id) = None THEN Response(d, "not_found")
        ELSE IF Len(debt_names) < 3 THEN Response(d, "invalid")
        ELSE IF paid = <<>>                                     \* if debt_paid: is false
             THEN Response([d EXCEPT !.ledger[debt_id].name = debt_names], "ok")
        ELSE IF ~debt_paid.ok THEN Response(d, "failed")        \* except Exception
        ELSE IF debt_paid.value < 0
             THEN Response([d EXCEPT !.ledger[debt_id].name = debt_names,
                                     !.ledger[debt_id].paid = @ + abs(debt_paid.value)], "ok")
        ELSE Response([d EXCEPT !.ledger[debt_id].name = debt_names,
                                !.ledger[debt_id].amount = @ + debt_paid.value], "ok")

\* delete_transaction, delete_debt, delete_loan, delete_expense: deleted = 1
delete_transaction(d, kind, row_id) ==
    IF get_ledger_row(d, kind, row_id) = None THEN Response(d, "not_found")
    ELSE Response([d EXCEPT !.ledger[row_id].deleted = TRUE], "ok")

create_expense(d, caller, title, amount) ==
    LET exp_title  == strip(title)
        exp_amount == Decimal(amount)
    IN  IF Len(exp_title) < 3 THEN Response(d, "invalid")
        ELSE IF ~exp_amount.ok THEN Response(d, "failed")
        ELSE Response([d EXCEPT !.ledger = Insert(d.ledger, d.seq.ledger,
                                    [kind |-> "Expenses", user |-> caller,
                                     shop |-> d.users[caller].shop, deleted |-> FALSE,
                                     name |-> exp_title, amount |-> exp_amount.value,
                                     paid |-> 0]),
                                !.seq.ledger = d.seq.ledger + 1], "ok")

\* a response that carries data: the fields of a row, or a DataTables listing
Answer(d, data) == [db |-> d, res |-> "ok", names |-> {}, data |-> data]

\* view_expense: Expenses.objects.get(id=) and the row's fields
view_expense(d, expense_id) ==
    IF get_ledger_row(d, "Expenses", expense_id) = None THEN Response(d, "not_found")
    ELSE Answer(d, [id |-> expense_id, title |-> d.ledger[expense_id].name,
                    amount |-> format_number(100 * d.ledger[expense_id].amount),
                    user |-> d.ledger[expense_id].user,
                    shop |-> d.ledger[expense_id].shop])

\* the DataTables answer of a listing whose request has no filter and asks for
\* every row on one page (length = -1): the rows of the page, their number, and
\* the grand total of their amounts
DataTable(d, rows) ==
    [data         |-> rows,
     recordsTotal |-> Cardinality(rows),
     total_amount |-> format_number(100 * Sum([l \in rows |-> d.ledger[l].amount], rows))]

(* The page of a listing: data is the list of the rows after filtering and *)
(* sorting, start and length are the DataTables parameters of the request.  *)

\* data[a:b] of Python for 0 <= a <= b
Slice(data, a, b) ==
    IF a >= Len(data) THEN <<>>
    ELSE SubSeq(data, a + 1, IF b < Len(data) THEN b ELSE Len(data))

\* every request answered with the whole list
paginate_data_whole(data, start, length) == data

paginate_data(data, start, length) ==
    IF length < 0 THEN data ELSE Slice(data, start, start + length)

\* start // length is the floor of the quotient, as \div is
calculate_row_count_start(start, length) ==
    LET page_number == IF length > 0 THEN (start \div length) + 1 ELSE 1
    IN  (page_number - 1) * length + 1

\* format_final_data: the rows of the page, numbered from row_count_start
format_final_data(data, row_count_start) ==
    [k \in 1 .. Len(data) |-> [count |-> row_count_start + (k - 1), id |-> data[k]]]

\* the last steps of a listing view
listing_page(data, start, length) ==
    format_final_data(paginate_data(data, start, length),
                      calculate_row_count_start(start, length))

\* the base queryset with the deleted rows as well
Listed_with_deleted(d, kind) == {l \in DOMAIN d.ledger : d.ledger[l].kind = kind}

\* Model.objects.filter(deleted=False)
Listed(d, kind) == {l \in DOMAIN d.ledger : d.ledger[l].kind = kind /\ ~d.ledger[l].deleted}

\* selcom_transactions_page, lipa_transactions_page, debts_page, loans_page
transactions_page(d, caller, kind) ==
    login_required(d, caller, admin_required(d, caller,
        Answer(d, DataTable(d, Listed(d, kind)))))

\* every shop's expenses shown to everybody
ExpensesOf_every_shop(d, caller) == Listed(d, "Expenses")

\* the queryset of expenses_page: a caller who is no admin gets the own shop's rows
ExpensesOf(d, caller) ==
    IF d.users[caller].is_admin THEN Listed(d, "Expenses")
    ELSE {l \in Listed(d, "Expenses") : d.ledger[l].shop = d.users[caller].shop}

expenses_page(d, caller) ==
    login_required(d, caller, Answer(d, DataTable(d, ExpensesOf(d, caller))))

expenses_actions_view(d, caller, expense_id) ==
    login_required(d, caller, view_expense(d, expense_id))

\* selcom_transactions_actions, lipanamba_transactions_actions, debts_actions, loans_actions
transactions_actions_create(d, caller, kind, names, amount) ==
    login_required(d, caller, admin_required(d, caller,
        create_transaction(d, kind, names, amount)))

transactions_actions_delete(d, caller, kind, row_id) ==
    login_required(d, caller, admin_required(d, caller, delete_transaction(d, kind, row_id)))

debts_actions_update(d, caller, kind, debt_id, names, paid) ==
    login_required(d, caller, admin_required(d, caller,
        update_debt(d, kind, debt_id, names, paid)))

expenses_actions_create(d, caller, title, amount) ==
    login_required(d, caller, create_expense(d, caller, title, amount))

expenses_actions_delete(d, caller, expense_id) ==
    login_required(d, caller, delete_transaction(d, "Expenses", expense_id))

----------------------------------------------------------------------------
(* Requests *)

\* the ids a request can name: those of the rows of the table, and one that no row has
ShopIds    == DOMAIN shops \cup {seq.shop}
UserIds    == DOMAIN users \cup {seq.user}
ProductIds == DOMAIN products \cup {seq.product}
CartIds    == DOMAIN cart \cup {seq.cart}
SaleIds    == DOMAIN sales \cup {seq.sale}
ItemIds    == DOMAIN items \cup {seq.item}

\* qty_new as typed: the numbers from -1 up, and texts that are no number
NonNumbers == {<<>>, <<"a">>, <<"-">>, <<"1", "x">>}
QtyTexts   == {str(n) : n \in (0 - 1) .. MaxAddQty} \cup NonNumbers

\* names and title as typed, amount as typed, paid as typed (<<>>: the field is empty)
Labels      == {<<"a", "b">>, <<" ", "a", "b", " ">>, <<" ", "a", "b", "c">>}
AmountTexts == {str(MaxAmount - 1), <<"x">>}
PaidTexts   == {str(n) : n \in (0 - MaxPaid) .. MaxPaid} \cup {<<>>, <<"x">>}
LedgerIds   == DOMAIN ledger \cup {seq.ledger}

\* the AutoField counters stay within the ids of the model
WithinBounds(d) ==
    /\ d.seq.shop    <= MaxShops + 1
    /\ d.seq.user    <= MaxUsers + 1
    /\ d.seq.product <= MaxProducts + 1
    /\ d.seq.cart    <= MaxCartRows + 1
    /\ d.seq.sale    <= MaxSales + 1
    /\ d.seq.ledger  <= MaxLedger + 1
    /\ \A p \in DOMAIN d.products : d.products[p].qty <= MaxStock + MaxAddQty
    /\ \A l \in DOMAIN d.ledger : d.ledger[l].amount <= MaxAmount /\ d.ledger[l].paid <= MaxAmount

\* a request is served: r is the handler's result, r.db the database after it
Serve(r) ==
    /\ WithinBounds(r.db)
    /\ shops'    = r.db.shops
    /\ users'    = r.db.users
    /\ products' = r.db.products
    /\ cart'     = r.db.cart
    /\ sales'    = r.db.sales
    /\ items'    = r.db.items
    /\ ledger'   = r.db.ledger
    /\ seq'      = r.db.seq
    /\ call'     = call

\* the database is written: d is the database after the statement
Written(d) ==
    /\ shops'    = d.shops
    /\ users'    = d.users
    /\ products' = d.products
    /\ cart'     = d.cart
    /\ sales'    = d.sales
    /\ items'    = d.items
    /\ ledger'   = d.ledger
    /\ seq'      = d.seq

ShopCreate ==
    \E caller \in Callers(DB), abbrev \in Abbrevs :
        Serve(shops_requests_create(DB, caller, abbrev))

ShopEdit ==
    \E caller \in Callers(DB), shop_id \in ShopIds, abbrev \in Abbrevs :
        Serve(shops_requests_edit(DB, caller, shop_id, abbrev))

ShopDelete ==
    \E caller \in Callers(DB), shop_id \in ShopIds :
        Serve(shops_requests_delete(DB, caller, shop_id))

ProductCreate ==
    \E caller \in Callers(DB), today \in Days, shop_id \in ShopIds, qty \in StockValues,
       price \in Prices, cost \in Costs :
        Serve(products_requests_create(DB, caller, today, shop_id, qty, price, cost))

ProductEdit ==
    \E caller \in Callers(DB), product_id \in ProductIds, shop_id \in ShopIds,
       qty \in StockValues, price \in Prices, cost \in Costs :
        Serve(products_requests_edit(DB, caller, product_id, shop_id, qty, price, cost))

ProductDelete ==
    \E caller \in Callers(DB), product_id \in ProductIds :
        Serve(products_requests_delete(DB, caller, product_id))

ProductBlock ==
    \E caller \in Callers(DB), product_id \in ProductIds :
        Serve(products_requests_block(DB, caller, product_id))

ProductRestock ==
    \E caller \in Callers(DB), today \in Days, product_id \in ProductIds, new_qty \in QtyTexts :
        Serve(products_requests_qty(DB, caller, today, product_id, new_qty))

CartAdd ==
    \E caller \in Callers(DB), product_id \in ProductIds, qty \in AddQtys :
        Serve(sales_actions_cart_add(DB, caller, product_id, qty))

\* add-to-cart with the qty as typed
CartAddText ==
    \E caller \in Callers(DB), product_id \in ProductIds, qty \in QtyTexts :
        Serve(sales_actions_cart_add_text(DB, caller, product_id, qty))

CartDelete ==
    \E caller \in Callers(DB), cart_id \in CartIds :
        Serve(sales_actions_cart_delete(DB, caller, cart_id))

CartClear ==
    \E caller \in Callers(DB) :
        Serve(sales_actions_clear_cart(DB, caller))

Checkout ==
    \E caller \in Callers(DB) :
        Serve(sales_actions_checkout(DB, caller))

SaleItemRemove ==
    \E caller \in Callers(DB), item_id \in ItemIds :
        Serve(sales_actions_item_remove(DB, caller, item_id))

SaleDelete ==
    \E caller \in Callers(DB), sale_id \in SaleIds :
        Serve(sales_actions_sales_delete(DB, caller, sale_id))

UserCreate ==
    \E caller \in Callers(DB), username \in Usernames, phone \in Phones, shop_id \in ShopIds :
        Serve(users_requests_create(DB, caller, username, phone, shop_id))

UserEdit ==
    \E caller \in Callers(DB), user_id \in UserIds, username \in Usernames,
       phone \in Phones, shop_id \in ShopIds :
        Serve(users_requests_edit(DB, caller, user_id, username, phone, shop_id))

UserDelete ==
    \E caller \in Callers(DB), user_id \in UserIds :
        Serve(users_requests_delete(DB, caller, user_id))

UserBlock ==
    \E caller \in Callers(DB), user_id \in UserIds :
        Serve(users_requests_block(DB, caller, user_id))

UserReset ==
    \E caller \in Callers(DB), user_id \in UserIds :
        Serve(users_requests_reset(DB, caller, user_id))

ProfileContact ==
    \E caller \in Callers(DB), new_contact \in Phones \ {None} :
        Serve(user_profile_page_contact(DB, caller, new_contact))

ProfileUpdate ==
    \E caller \in Callers(DB), username \in Usernames, phone \in Phones, shop_id \in ShopIds :
        Serve(user_profile_page_update(DB, caller, username, phone, shop_id))

ProfilePassword ==
    \E caller \in Callers(DB), old_password \in {Upper(n) : n \in Usernames} \cup {"secret"} :
        Serve(user_profile_page_password(DB, caller, old_password, "secret"))

TransactionCreate ==
    \E caller \in Callers(DB), kind \in LedgerKinds, names \in Labels, amount \in AmountTexts :
        Serve(transactions_actions_create(DB, caller, kind, names, amount))

TransactionDelete ==
    \E caller \in Callers(DB), kind \in LedgerKinds, row_id \in LedgerIds :
        Serve(transactions_actions_delete(DB, caller, kind, row_id))

DebtUpdate ==
    \E caller \in Callers(DB), debt_id \in LedgerIds, names \in Labels, paid \in PaidTexts :
        Serve(debts_actions_update(DB, caller, "Debts", debt_id, names, paid))

ExpenseCreate ==
    \E caller \in Callers(DB), title \in Labels, amount \in AmountTexts :
        Serve(expenses_actions_create(DB, caller, title, amount))

ExpenseDelete ==
    \E caller \in Callers(DB), expense_id \in LedgerIds :
        Serve(expenses_actions_delete(DB, caller, expense_id))

\* the listings and the view of an expense answer and change nothing
TransactionsPage ==
    \E caller \in Callers(DB), kind \in LedgerKinds :
        Serve(transactions_page(DB, caller, kind))

ExpensesPage ==
    \E caller \in Callers(DB) :
        Serve(expenses_page(DB, caller))

ExpenseView ==
    \E caller \in Callers(DB), expense_id \in LedgerIds :
        Serve(expenses_actions_view(DB, caller, expense_id))

\* the search texts of a column: up to MaxLen characters, at least one
SearchChars  == {"0", "1", "5", "-", ".", ","}
Searches     == UNION {[1 .. n -> SearchChars] : n \in 1 .. MaxLen}

\* the values of a Decimal column, and the values that are formatted, in hundredths
ColumnValues == {0 - 500, 0, 100, 150, 1000, 1050, 10000, 150000}
FormatValues == {sign * (100 * units + cents) :
                    sign \in {0 - 1, 1},
                    units \in {0, 7, 999, 1000, 1500, 1234567},
                    cents \in {0, 5, 20, 23, 50, 99}}

\* apply_column_filtering calls filter_items for an item and a search text
FilterItems ==
    /\ ~call.done
    /\ call' = [call EXCEPT !.done = TRUE,
                            !.match = filter_items(call.search, call.value)]
    /\ UNCHANGED <<shops, users, products, cart, sales, items, ledger, seq>>

\* format_final_data and calculate_grand_totals call format_number for a value
FormatNumber ==
    /\ ~call.done
    /\ call' = [call EXCEPT !.done = TRUE, !.shown = format_number(call.value)]
    /\ UNCHANGED <<shops, users, products, cart, sales, items, ledger, seq>>

(* Requests that the server works on at the same time: every request has   *)
(* a thread of its own, and between two statements of one thread the other  *)
(* threads run.  A step is what a handler does up to and including its next *)
(* access to the database.                                                  *)
Requests == 1 .. MaxRequests

\* a thread that has no request yet
Idle == [pc |-> "idle", res |-> "", product_id |-> None, product |-> None, qty_value |-> 0]

\* a restock request arrives and runs up to the SELECT of its product
RestockLoad ==
    \E r \in Requests, caller \in Callers(DB), product_id \in ProductIds, new_qty \in QtyTexts :
        /\ call[r].pc = "idle"
        /\ LET a == products_requests_qty_load(DB, caller, product_id, new_qty)
           IN  call' = [call EXCEPT ![r] =
                           IF a.res = "loaded"
                           THEN [pc |-> "loaded", res |-> "", product_id |-> a.product_id,
                                 product |-> a.product, qty_value |-> a.qty_value]
                           ELSE [Idle EXCEPT !.pc = "done", !.res = a.res]]
        /\ UNCHANGED <<shops, users, products, cart, sales, items, ledger, seq>>

\* it adds to the quantity that it has loaded, saves, and answers
RestockSave ==
    \E r \in Requests, today \in Days :
        /\ call[r].pc = "loaded"
        /\ LET a == restock_save(DB, call[r], today)
           IN  /\ Written(a.db)
               /\ call' = [call EXCEPT ![r].pc = "done", ![r].res = a.res]

\* a thread that has no checkout yet
Ready == [pc |-> "idle", res |-> "", user |-> None, rows |-> <<>>, lines |-> EmptyTable,
          prods |-> EmptyTable, grand_amount |-> 0, profit_count |-> 0, shop |-> None,
          sale_id |-> None]

\* the thread takes the local variables of a step's result and goes on at pc
Goes(r, frame, pc, res) ==
    call' = [call EXCEPT ![r] = [pc |-> pc, res |-> res, user |-> frame.user,
                                 rows |-> frame.rows, lines |-> frame.lines,
                                 prods |-> frame.prods, grand_amount |-> frame.grand_amount,
                                 profit_count |-> frame.profit_count, shop |-> frame.shop,
                                 sale_id |-> frame.sale_id]]

\* a checkout request arrives, reads the cart and its products and checks them
CheckoutLoad ==
    \E r \in Requests, caller \in Callers(DB) :
        /\ call[r].pc = "idle"
        /\ LET a == sales_actions_checkout_load(DB, caller)
           IN  IF a.res = "loaded" THEN Goes(r, a.frame, "header", "")
               ELSE Goes(r, Ready, "done", a.res)
        /\ UNCHANGED <<shops, users, products, cart, sales, items, ledger, seq>>

CheckoutHeader ==
    \E r \in Requests :
        /\ call[r].pc = "header"
        /\ LET a == checkout_header(DB, call[r])
           IN  Written(a.db) /\ Goes(r, a.frame, "item", "")

CheckoutItem ==
    \E r \in Requests :
        /\ call[r].pc = "item"
        /\ LET a == checkout_item(DB, call[r])
           IN  /\ Written(a.db)
               /\ IF a.res = "ok" THEN Goes(r, call[r], "save", "")
                  ELSE Goes(r, call[r], "done", a.res)

CheckoutSave ==
    \E r \in Requests :
        /\ call[r].pc = "save"
        /\ LET a == checkout_save(DB, call[r])
           IN  Written(a.db) /\ Goes(r, call[r], "delete", "")

\* after the last row the request answers that the checkout is complete
CheckoutDelete ==
    \E r \in Requests :
        /\ call[r].pc = "delete"
        /\ LET a == checkout_delete(DB, call[r])
           IN  /\ Written(a.db)
               /\ IF a.frame.rows = <<>> THEN Goes(r, a.frame, "done", "ok")
                  ELSE Goes(r, a.frame, "item", "")

\* a statement of the second loop raises, as sqlite does where the database is
\* locked by another writer for longer than its timeout, and the request
\* answers from the except branch
CheckoutFail ==
    \E r \in Requests :
        /\ call[r].pc \in {"item", "save", "delete"}
        /\ LET a == checkout_except(DB, call[r])
           IN  Written(a.db) /\ Goes(r, call[r], "done", a.res)

\* the lists of a listing, newest row first, and the start and length asked for
Lists   == {[k \in 1 .. n |-> n + 1 - k] : n \in 0 .. MaxRows}
Starts  == 0 .. MaxRows
Lengths == (0 - 1) .. MaxRows

\* a listing view paginates and numbers the rows that it has filtered and sorted
ListingPage ==
    /\ ~call.done
    /\ call' = [call EXCEPT !.done = TRUE,
                            !.page = listing_page(call.data, call.start, call.length)]
    /\ UNCHANGED <<shops, users, products, cart, sales, items, ledger, seq>>

----------------------------------------------------------------------------
(* The database after installation: the main shop and the administrator *)

Admin(shop_id, username) ==
    [shop |-> shop_id, is_admin |-> TRUE, is_active |-> TRUE, deleted |-> FALSE,
     username |-> username, phone |-> None, password |-> "secret"]

Staff(shop_id, username) ==
    [shop |-> shop_id, is_admin |-> FALSE, is_active |-> TRUE, deleted |-> FALSE,
     username |-> username, phone |-> None, password |-> Upper(username)]

Product(shop_id, qty, price, cost) ==
    [shop |-> shop_id, qty |-> qty, price |-> price, cost |-> cost,
     is_hidden |-> FALSE, is_deleted |-> FALSE, suffixes |-> 0, restock_date |-> 1]

(* Point of sale: two shops, the administrator, one member of staff and two *)
(* products in stock, the second one in the given shop; carts and sales     *)
(* come from the requests.                                                  *)
Stocked(shop_id) ==
    /\ shops    = (1 :> [abbrev |-> "AA"]) @@ (2 :> [abbrev |-> "BB"])
    /\ users    = (1 :> Admin(1, "Ann")) @@ (2 :> Staff(1, "Bob"))
    /\ products = (1 :> Product(1, MaxStock, 2, 1)) @@ (2 :> Product(shop_id, MaxStock, 3, 1))
    /\ cart     = EmptyTable
    /\ sales    = EmptyTable
    /\ items    = EmptyTable
    /\ ledger   = EmptyTable
    /\ seq      = [shop |-> 3, user |-> 3, product |-> 3, cart |-> 1, sale |-> 1,
                   item |-> 1, ledger |-> 1]
    /\ call     = None

\* selling and taking sales back, both products in the main shop
Init == Stocked(1)

Next ==
    \/ CartAdd
    \/ CartDelete
    \/ CartClear
    \/ Checkout
    \/ SaleItemRemove
    \/ SaleDelete

Spec == Init /\ [][Next]_vars

\* the guards of checkout, one product in each shop
InitGuards == Stocked(2)

NextGuards ==
    \/ ProductDelete
    \/ CartAdd
    \/ CartDelete
    \/ CartClear
    \/ Checkout

SpecGuards == InitGuards /\ [][NextGuards]_vars

(* The stock of one product: the administrator and one member of staff in  *)
(* the main shop, its one product, and a second shop that is empty.         *)
OneProduct ==
    /\ shops    = (1 :> [abbrev |-> "AA"]) @@ (2 :> [abbrev |-> "BB"])
    /\ users    = (1 :> Admin(1, "Ann")) @@ (2 :> Staff(1, "Bob"))
    /\ products = (1 :> Product(1, MaxStock, 2, 1))
    /\ cart     = EmptyTable
    /\ sales    = EmptyTable
    /\ items    = EmptyTable
    /\ ledger   = EmptyTable
    /\ seq      = [shop |-> 3, user |-> 3, product |-> 2, cart |-> 1, sale |-> 1,
                   item |-> 1, ledger |-> 1]

InitStock == OneProduct /\ call = None

\* the product edited and moved, sold and taken back, and the shops deleted
NextStock ==
    \/ ProductEdit
    \/ ShopDelete
    \/ CartAddText
    \/ Checkout
    \/ SaleItemRemove
    \/ SaleDelete

SpecStock == InitStock /\ [][NextStock]_vars

(* Shop management: the main shop with the administrator, a second shop    *)
(* with one member of staff and one product in stock; further shops, carts, *)
(* sales and ledger rows come from the requests.                            *)
InitShops ==
    /\ shops    = (1 :> [abbrev |-> "AA"]) @@ (2 :> [abbrev |-> "BB"])
    /\ users    = (1 :> Admin(1, "Ann")) @@ (2 :> Staff(2, "Bob"))
    /\ products = (1 :> Product(2, MaxStock, 2, 1))
    /\ cart     = EmptyTable
    /\ sales    = EmptyTable
    /\ items    = EmptyTable
    /\ ledger   = EmptyTable
    /\ seq      = [shop |-> 3, user |-> 3, product |-> 2, cart |-> 1, sale |-> 1,
                   item |-> 1, ledger |-> 1]
    /\ call     = None

\* the requests behind the admin guard, and the expenses that are open to all staff
NextShops ==
    \/ ShopCreate
    \/ ShopEdit
    \/ ShopDelete
    \/ ProductDelete
    \/ ProductBlock
    \/ UserDelete
    \/ UserBlock
    \/ TransactionCreate
    \/ ExpenseCreate

SpecShops == InitShops /\ [][NextShops]_vars

\* the management of the second shop's product, and the carts that ask for it
NextProducts ==
    \/ ProductEdit
    \/ ProductDelete
    \/ ProductBlock
    \/ ProductRestock
    \/ CartAdd

SpecProducts == InitShops /\ [][NextProducts]_vars

\* the ledgers: the admin's transactions and debts, everybody's expenses, and the
\* staff moved between the shops
NextLedger ==
    \/ TransactionCreate
    \/ TransactionDelete
    \/ DebtUpdate
    \/ ExpenseCreate
    \/ ExpenseDelete
    \/ TransactionsPage
    \/ ExpensesPage
    \/ ExpenseView
    \/ UserEdit

SpecLedger == InitShops /\ [][NextLedger]_vars

\* the deletion of a shop that has carts, sales and ledger rows
NextCascade ==
    \/ ShopCreate
    \/ ShopDelete
    \/ CartAdd
    \/ Checkout
    \/ TransactionCreate
    \/ ExpenseCreate

SpecCascade == InitShops /\ [][NextCascade]_vars

(* User management: two shops and the administrator; staff accounts come    *)
(* from the requests.                                                       *)
Installed ==
    /\ shops    = (1 :> [abbrev |-> "AA"]) @@ (2 :> [abbrev |-> "BB"])
    /\ users    = (1 :> Admin(1, "Ann"))
    /\ products = EmptyTable
    /\ cart     = EmptyTable
    /\ sales    = EmptyTable
    /\ items    = EmptyTable
    /\ ledger   = EmptyTable
    /\ seq      = [shop |-> 3, user |-> 2, product |-> 1, cart |-> 1, sale |-> 1,
                   item |-> 1, ledger |-> 1]

InitUsers == Installed /\ call = None

NextUsers ==
    \/ UserCreate
    \/ UserEdit
    \/ UserDelete
    \/ UserBlock
    \/ UserReset
    \/ ProfileContact
    \/ ProfileUpdate
    \/ ProfilePassword

SpecUsers == InitUsers /\ [][NextUsers]_vars

(* Restocks at the same time: the main shop's product, and the threads of  *)
(* the server before a request has arrived.                                 *)
InitRestock ==
    /\ OneProduct
    /\ call = [r \in Requests |-> Idle]

\* restocks, and the product blocked and unblocked while they are under way
NextRestock ==
    \/ RestockLoad
    \/ RestockSave
    \/ ProductBlock

SpecRestock == InitRestock /\ [][NextRestock]_vars

(* Checkouts at the same time: two products in stock in the main shop, the *)
(* administrator's cart with both of them, the cart of the member of staff  *)
(* with one of them, and the threads of the server.                         *)
InitCheckout ==
    /\ shops    = (1 :> [abbrev |-> "AA"]) @@ (2 :> [abbrev |-> "BB"])
    /\ users    = (1 :> Admin(1, "Ann")) @@ (2 :> Staff(1, "Bob"))
    /\ products = (1 :> Product(1, MaxStock, 2, 1)) @@ (2 :> Product(1, MaxStock, 3, 1))
    /\ \E p \in {1, 2} :
          cart = (1 :> [user |-> 1, product |-> 1, qty |-> MaxAddQty])
              @@ (2 :> [user |-> 1, product |-> 2, qty |-> MaxAddQty])
              @@ (3 :> [user |-> 2, product |-> p, qty |-> MaxAddQty])
    /\ sales    = EmptyTable
    /\ items    = EmptyTable
    /\ ledger   = EmptyTable
    /\ seq      = [shop |-> 3, user |-> 3, product |-> 3, cart |-> 4, sale |-> 1,
                   item |-> 1, ledger |-> 1]
    /\ call     = [r \in Requests |-> Ready]

NextCheckout ==
    \/ CheckoutLoad
    \/ CheckoutHeader
    \/ CheckoutItem
    \/ CheckoutSave
    \/ CheckoutDelete
    \/ CheckoutFail

SpecCheckout == InitCheckout /\ [][NextCheckout]_vars

(* The helpers of the listings: one call of filter_items for every search  *)
(* text and column value, one call of format_number for every value.       *)
InitFilter ==
    /\ Installed
    /\ call \in [search : Searches, value : ColumnValues, done : {FALSE}, match : {FALSE}]

NextFilter == FilterItems

SpecFilter == InitFilter /\ [][NextFilter]_vars

InitFormat ==
    /\ Installed
    /\ call \in [value : FormatValues, done : {FALSE}, shown : {<<>>}]

NextFormat == FormatNumber

SpecFormat == InitFormat /\ [][NextFormat]_vars

\* one listing request for every list, start and length
InitPaging ==
    /\ Installed
    /\ call \in [data : Lists, start : Starts, length : Lengths, done : {FALSE}, page : {<<>>}]

NextPaging == ListingPage

SpecPaging == InitPaging /\ [][NextPaging]_vars

----------------------------------------------------------------------------
(* Properties of the point of sale *)

\* the callers with a session
Authenticated == Callers(DB) \ {AnonymousUser}

\* the cart rows of a user, their shops and their total per product
Lines(user)       == {c \in DOMAIN cart : cart[c].user = user}
LineShops(user)   == {products[cart[c].product].shop : c \in Lines(user)}
LineIsShort(c)    == cart[c].qty > products[cart[c].product].qty
InCart(user, p)   == Sum([c \in Lines(user) |-> IF cart[c].product = p THEN cart[c].qty ELSE 0],
                         Lines(user))
SaleLines(d, x)   == {i \in DOMAIN d.items : d.items[i].sale = x}
Sold(d, x, p)     == Sum([i \in SaleLines(d, x) |->
                             IF d.items[i].product = p THEN d.items[i].qty ELSE 0],
                         SaleLines(d, x))

C1_Pre(caller) ==
    /\ Lines(caller) # {}
    /\ Cardinality(LineShops(caller)) = 1
    /\ \A c \in Lines(caller) : ~LineIsShort(c)

C1_Post(caller, r) ==
    LET d    == r.db
        x    == seq.sale
        new  == (DOMAIN d.items) \ (DOMAIN items)
    IN  /\ r.res = "ok"
        /\ x \notin DOMAIN sales
        /\ DOMAIN d.sales = (DOMAIN sales) \cup {x}
        /\ \A o \in DOMAIN sales : d.sales[o] = sales[o]
        /\ d.sales[x].user = caller
        /\ d.sales[x].shop \in LineShops(caller)
        /\ d.sales[x].amount =
              Sum([c \in Lines(caller) |-> products[cart[c].product].price * cart[c].qty],
                  Lines(caller))
        /\ d.sales[x].profit =
              Sum([c \in Lines(caller) |->
                      (products[cart[c].product].price - products[cart[c].product].cost)
                          * cart[c].qty],
                  Lines(caller))
        /\ \A i \in DOMAIN items : i \in DOMAIN d.items /\ d.items[i] = items[i]
        /\ Cardinality(new) = Cardinality(Lines(caller))
        /\ \A c \in Lines(caller) :
              \E i \in new :
                 d.items[i] = [sale    |-> x,
                               product |-> cart[c].product,
                               price   |-> products[cart[c].product].price,
                               qty     |-> cart[c].qty,
                               profit  |-> (products[cart[c].product].price
                                              - products[cart[c].product].cost) * cart[c].qty]
        /\ DOMAIN d.products = DOMAIN products
        /\ \A p \in DOMAIN products :
              d.products[p] = [products[p] EXCEPT !.qty = products[p].qty - InCart(caller, p)]
        /\ DOMAIN d.cart = (DOMAIN cart) \ Lines(caller)
        /\ \A c \in DOMAIN d.cart : d.cart[c] = cart[c]

\* C1: a checkout of a non-empty cart whose lines are all of one shop and all within
\* stock creates one Sales row (amount, profit, shop, user as stated), one Sale_items
\* row per cart line, takes each line's quantity off its product's stock and empties
\* the caller's cart.
C1_CheckoutSuccess ==
    \A caller \in Authenticated :
        C1_Pre(caller) => C1_Post(caller, sales_actions_checkout(DB, caller))

\* a sale of two lines has been made and the seller's cart is empty
C1_Witness ==
    \E x \in DOMAIN sales :
        /\ Cardinality(SaleLines(DB, x)) = 2
        /\ sales[x].amount = Sum([i \in SaleLines(DB, x) |-> items[i].price * items[i].qty],
                                 SaleLines(DB, x))
        /\ sales[x].profit > 0
        /\ Lines(sales[x].user) = {}

C2_Short(caller) == {c \in Lines(caller) : LineIsShort(c)}

\* C2 as stated: whenever a line of the cart asks for more than the stock, the checkout
\* fails with the message that names every short product, and nothing is written.
C2_StockGuardAsStated ==
    \A caller \in Authenticated :
        LET r == sales_actions_checkout(DB, caller)
        IN  C2_Short(caller) # {} =>
               /\ r.res = "no_stock"
               /\ r.names = {cart[c].product : c \in C2_Short(caller)}
               /\ r.db = DB

\* C2 amended: whenever a line of the cart asks for more than the stock, the checkout
\* fails and nothing is written; its message names every short product when all the
\* lines are of one shop, and is the same-shop-only message when they are not.
C2_StockGuard ==
    \A caller \in Authenticated :
        LET r == sales_actions_checkout(DB, caller)
        IN  C2_Short(caller) # {} =>
               /\ r.db = DB
               /\ Cardinality(LineShops(caller)) = 1 =>
                     /\ r.res = "no_stock"
                     /\ r.names = {cart[c].product : c \in C2_Short(caller)}
               /\ Cardinality(LineShops(caller)) > 1 => r.res = "same_shop"

\* a cart of one shop with a short line, whose checkout is refused for the stock
C2_Witness ==
    \E caller \in Authenticated :
        /\ C2_Short(caller) # {}
        /\ Cardinality(LineShops(caller)) = 1
        /\ sales_actions_checkout(DB, caller).res = "no_stock"

\* C3: the checkout of a cart with products of more than one shop fails with the
\* same-shop-only message, also when a line is short of stock, and nothing is written.
C3_MultiShopGuard ==
    \A caller \in Authenticated :
        LET r == sales_actions_checkout(DB, caller)
        IN  Cardinality(LineShops(caller)) > 1 => r.res = "same_shop" /\ r.db = DB

\* a cart of two shops with a short line, whose checkout is refused for the shops
C3_Witness ==
    \E caller \in Authenticated :
        /\ Cardinality(LineShops(caller)) > 1
        /\ C2_Short(caller) # {}
        /\ sales_actions_checkout(DB, caller).res = "same_shop"

\* C4: there is at most one cart row per user and product, and an add-to-cart for a
\* product that is in the caller's cart leaves the whole cart as it is.
C4_CartGetOrCreate ==
    /\ \A a, b \in DOMAIN cart :
          cart[a].user = cart[b].user /\ cart[a].product = cart[b].product => a = b
    /\ \A caller \in Authenticated, p \in ProductIds, qty \in AddQtys :
          (\E c \in Lines(caller) : cart[c].product = p) =>
              sales_actions_cart_add(DB, caller, p, qty).db.cart = cart

\* a second add-to-cart of another quantity is accepted and the row keeps its quantity
C4_Witness ==
    \E caller \in Authenticated, c \in DOMAIN cart, qty \in AddQtys :
        /\ cart[c].user = caller
        /\ cart[c].qty # qty
        /\ sales_actions_cart_add(DB, caller, cart[c].product, qty).res = "ok"

C5_Post(i, r) ==
    LET d    == r.db
        item == items[i]
        x    == item.sale
        last_line == SaleLines(DB, x) = {i}
    IN  /\ r.res = (IF last_line THEN "ok_sale_deleted" ELSE "ok")
        /\ DOMAIN d.products = DOMAIN products
        /\ \A p \in DOMAIN products :
              d.products[p] = IF p = item.product
                              THEN [products[p] EXCEPT !.qty = products[p].qty + item.qty]
                              ELSE products[p]
        /\ DOMAIN d.items = (DOMAIN items) \ {i}
        /\ \A j \in DOMAIN d.items : d.items[j] = items[j]
        /\ DOMAIN d.sales = IF last_line THEN (DOMAIN sales) \ {x} ELSE DOMAIN sales
        /\ \A o \in DOMAIN d.sales :
              d.sales[o] = IF o = x
                           THEN [sales[x] EXCEPT !.amount = sales[x].amount - item.price * item.qty]
                           ELSE sales[o]
        /\ d.cart = cart

\* C5: removing a sale line gives its quantity back to the product, takes price*qty off
\* the sale's amount and deletes the line; the sale is deleted with its last line and
\* stays, with its other lines, otherwise.
C5_RemoveSaleItem ==
    \A caller \in Authenticated, i \in DOMAIN items :
        C5_Post(i, sales_actions_item_remove(DB, caller, i))

\* a sale of two lines that has lost one of them: the line left does not account for
\* the stock that is gone
C5_Witness ==
    \E x \in DOMAIN sales, i \in DOMAIN items :
        /\ SaleLines(DB, x) = {i}
        /\ sales[x].amount = items[i].price * items[i].qty
        /\ sales[x].profit > items[i].profit

C6_Post(x, r) ==
    LET d == r.db
    IN  /\ r.res = "ok"
        /\ DOMAIN d.products = DOMAIN products
        /\ \A p \in DOMAIN products :
              d.products[p] = [products[p] EXCEPT !.qty = products[p].qty + Sold(DB, x, p)]
        /\ DOMAIN d.items = (DOMAIN items) \ SaleLines(DB, x)
        /\ \A j \in DOMAIN d.items : d.items[j] = items[j]
        /\ DOMAIN d.sales = (DOMAIN sales) \ {x}
        /\ \A o \in DOMAIN d.sales : d.sales[o] = sales[o]

\* C6: deleting a sale gives every line's quantity back to its product and deletes the
\* lines and the sale; a checkout followed by the deletion of its sale leaves every
\* product's stock as it was before the checkout.
C6_DeleteSale ==
    /\ \A caller \in Authenticated, x \in DOMAIN sales :
          C6_Post(x, sales_actions_sales_delete(DB, caller, x))
    /\ \A caller, admin \in Authenticated :
          LET sold == sales_actions_checkout(DB, caller)
              back == sales_actions_sales_delete(sold.db, admin, seq.sale)
          IN  sold.res = "ok" =>
                 /\ back.res = "ok"
                 /\ back.db.products = products
                 /\ back.db.sales = sales
                 /\ back.db.items = items

\* a cart of two lines that can be checked out, next to a sale that can be deleted
C6_Witness ==
    /\ \E caller \in Authenticated :
          /\ Cardinality(Lines(caller)) = 2
          /\ sales_actions_checkout(DB, caller).res = "ok"
    /\ \E x \in DOMAIN sales : SaleLines(DB, x) # {}

----------------------------------------------------------------------------
(* Properties of shop management *)

Admins == {u \in Authenticated : users[u].is_admin}

\* C7: a delete request for shop 1 changes nothing, whoever sends it, and an admin is
\* told that the main shop cannot be deleted; shop 1 is there in every state.
C7_ProtectedMainShop ==
    /\ MAIN_SHOP \in DOMAIN shops
    /\ \A caller \in Callers(DB) : shops_requests_delete(DB, caller, MAIN_SHOP).db = DB
    /\ \A caller \in Admins : shops_requests_delete(DB, caller, MAIN_SHOP).res = "main_shop"

\* another shop has been deleted; the main shop is there and its deletion is refused
C7_Witness ==
    /\ DOMAIN shops # {}
    /\ seq.shop - 1 > Cardinality(DOMAIN shops)
    /\ MAIN_SHOP \in DOMAIN shops
    /\ \E caller \in Admins : shops_requests_delete(DB, caller, MAIN_SHOP).res = "main_shop"

\* the accounts of a shop, and whether a cart row, a sale or a ledger row refers to one
\* of them or a ledger row refers to the shop
C8_Members(s)  == {u \in DOMAIN users : users[u].shop = s}
C8_Referred(s) ==
    \/ \E c \in DOMAIN cart   : cart[c].user \in C8_Members(s)
    \/ \E x \in DOMAIN sales  : sales[x].user \in C8_Members(s)
    \/ \E l \in DOMAIN ledger : ledger[l].user \in C8_Members(s) \/ ledger[l].shop = s

\* the shop is gone with its accounts, products and sales, and with the cart rows and
\* sale lines of those products and sales; every other row is as it was
C8_Post(s, r) ==
    LET d == r.db
        keep_product(p) == products[p].shop # s
        keep_sale(x)    == sales[x].shop # s
    IN  /\ r.res = "ok"
        /\ d.shops    = [t \in (DOMAIN shops) \ {s} |-> shops[t]]
        /\ d.users    = [u \in (DOMAIN users) \ C8_Members(s) |-> users[u]]
        /\ d.products = [p \in {q \in DOMAIN products : keep_product(q)} |-> products[p]]
        /\ d.sales    = [x \in {y \in DOMAIN sales : keep_sale(y)} |-> sales[x]]
        /\ d.cart     = [c \in {e \in DOMAIN cart : keep_product(cart[e].product)} |-> cart[c]]
        /\ d.items    = [i \in {j \in DOMAIN items : /\ keep_product(items[j].product)
                                                      /\ keep_sale(items[j].sale)} |-> items[i]]
        /\ d.ledger   = ledger
        /\ d.seq      = seq

C9_Guarded(caller, r, service) ==
    IF caller = AnonymousUser THEN r.res = "login_redirect" /\ r.db = DB
    ELSE IF users[caller].is_admin THEN r = service
    ELSE r.res = "PermissionDenied" /\ r.db = DB

\* C9: the shop, product, user-management and ledger actions run for an admin and are
\* refused, with nothing changed, for every other caller.
C9_AdminGuard ==
    \A caller \in Callers(DB) :
        /\ \A abbrev \in Abbrevs :
              /\ C9_Guarded(caller, shops_requests_create(DB, caller, abbrev),
                            create_shop(DB, abbrev))
              /\ \A s \in ShopIds :
                    C9_Guarded(caller, shops_requests_edit(DB, caller, s, abbrev),
                               update_shop(DB, s, abbrev))
        /\ \A s \in ShopIds :
              C9_Guarded(caller, shops_requests_delete(DB, caller, s), delete_shop(DB, s))
        /\ \A s \in ShopIds, qty \in StockValues, price \in Prices, cost \in Costs :
              /\ \A today \in Days :
                    C9_Guarded(caller,
                               products_requests_create(DB, caller, today, s, qty, price, cost),
                               create_product(DB, today, s, qty, price, cost))
              /\ \A p \in ProductIds :
                    C9_Guarded(caller,
                               products_requests_edit(DB, caller, p, s, qty, price, cost),
                               update_product(DB, p, s, qty, price, cost))
        /\ \A p \in ProductIds :
              /\ C9_Guarded(caller, products_requests_delete(DB, caller, p),
                            delete_product(DB, p))
              /\ C9_Guarded(caller, products_requests_block(DB, caller, p),
                            toggle_product_status(DB, p))
              /\ \A today \in Days, qty \in QtyTexts \ {<<>>} :
                    C9_Guarded(caller, products_requests_qty(DB, caller, today, p, qty),
                               update_product_quantity(DB, today, p, qty))
        /\ \A username \in Usernames, phone \in Phones, s \in ShopIds :
              /\ C9_Guarded(caller, users_requests_create(DB, caller, username, phone, s),
                            create_user(DB, username, phone, s))
              /\ \A u \in UserIds :
                    C9_Guarded(caller, users_requests_edit(DB, caller, u, username, phone, s),
                               update_user(DB, u, username, phone, s))
        /\ \A u \in UserIds :
              /\ C9_Guarded(caller, users_requests_delete(DB, caller, u), delete_user(DB, u))
              /\ C9_Guarded(caller, users_requests_block(DB, caller, u),
                            toggle_user_status(DB, u))
              /\ C9_Guarded(caller, users_requests_reset(DB, caller, u),
                            reset_user_password(DB, u))
        /\ \A kind \in LedgerKinds, names \in Labels, amount \in AmountTexts :
              C9_Guarded(caller, transactions_actions_create(DB, caller, kind, names, amount),
                         create_transaction(DB, kind, names, amount))

\* a shop that an admin has created, and a member of staff whose request to create one
\* is refused while the admin's is served
C9_Witness ==
    /\ seq.shop > 3
    /\ \E caller \in Authenticated \ Admins, admin \in Admins, abbrev \in Abbrevs :
          /\ shops_requests_create(DB, caller, abbrev).res = "PermissionDenied"
          /\ shops_requests_create(DB, admin, abbrev).res = "ok"
          /\ shops_requests_create(DB, admin, abbrev).db # DB

----------------------------------------------------------------------------
(* Properties of user management *)

\* the accounts the admin operations act on, and the deleted ones
C10_Staff   == {u \in DOMAIN users : ~users[u].is_admin /\ ~users[u].deleted}
C10_Deleted == {u \in DOMAIN users : users[u].deleted}

\* the toggle flips is_active and nothing else, and a second toggle undoes it
C10_Toggle(admin, u) ==
    LET once  == users_requests_block(DB, admin, u)
        twice == users_requests_block(once.db, admin, u)
    IN  /\ once.res = "ok"
        /\ once.db = [DB EXCEPT !.users[u].is_active = ~users[u].is_active]
        /\ twice.res = "ok"
        /\ twice.db = DB

\* the soft delete sets the deleted flag, empties the account's cart, changes nothing else
C10_SoftDelete(admin, u) ==
    LET r == users_requests_delete(DB, admin, u)
    IN  /\ r.res = "ok"
        /\ r.db = [DB EXCEPT !.users[u].deleted = TRUE,
                             !.cart = [c \in {e \in DOMAIN cart : cart[e].user # u} |-> cart[c]]]

\* update, toggle, reset password and delete fail on a deleted account
C10_Refused(admin, u) ==
    /\ \A username \in Usernames, phone \in Phones, s \in ShopIds :
          LET r == users_requests_edit(DB, admin, u, username, phone, s)
          IN  r.res = "not_found" /\ r.db = DB
    /\ LET r == users_requests_block(DB, admin, u)  IN r.res = "failed" /\ r.db = DB
    /\ LET r == users_requests_reset(DB, admin, u)  IN r.res = "failed" /\ r.db = DB
    /\ LET r == users_requests_delete(DB, admin, u) IN r.res = "failed" /\ r.db = DB

\* C10: the toggle takes a staff account that is not deleted from Active to Blocked and
\* back, the soft delete marks it deleted; a deleted account stays deleted in every
\* later state, and the admin's update, toggle, password reset and delete of it fail
\* and change nothing.
C10_AccountLifecycle ==
    /\ [](\A admin \in Admins :
             /\ \A u \in C10_Staff   : C10_Toggle(admin, u) /\ C10_SoftDelete(admin, u)
             /\ \A u \in C10_Deleted : C10_Refused(admin, u))
    /\ [][\A u \in C10_Deleted : u \in DOMAIN users' /\ users'[u].deleted]_vars

\* an account that was blocked and then deleted, and an admin to ask for it
C10_Witness ==
    /\ Admins # {}
    /\ \E u \in C10_Deleted : ~users[u].is_active /\ ~users[u].is_admin

\* the uppercase form of a stored username
C11_Uppercase(username) ==
    CASE username = "Ann" -> "ANN"
      [] username = "Bob" -> "BOB"
      [] username = "Cat" -> "CAT"

\* C11: the account that a registration creates, and the account after an admin's
\* password reset, has the uppercase form of its username as its password; an update
\* of a staff account, by an admin or from the profile page, keeps the stored password.
C11_DefaultPassword ==
    \A admin \in Admins :
        /\ \A username \in Usernames, phone \in Phones, s \in ShopIds :
              LET r == users_requests_create(DB, admin, username, phone, s)
              IN  r.res = "ok" =>
                     /\ DOMAIN r.db.users = (DOMAIN users) \cup {seq.user}
                     /\ seq.user \notin DOMAIN users
                     /\ r.db.users[seq.user].password
                            = C11_Uppercase(r.db.users[seq.user].username)
        /\ \A u \in C10_Staff :
              /\ LET r == users_requests_reset(DB, admin, u)
                 IN  /\ r.res = "ok"
                     /\ r.db = [DB EXCEPT !.users[u].password = C11_Uppercase(users[u].username)]
              /\ \A username \in Usernames, phone \in Phones, s \in ShopIds :
                    /\ users_requests_edit(DB, admin, u, username, phone, s).db.users[u].password
                           = users[u].password
                    /\ u \in Callers(DB) =>
                          user_profile_page_update(DB, u, username, phone, s).db.users[u].password
                              = users[u].password

\* an account renamed since its password was set, whose reset gives the new name's
\* uppercase form
C11_Witness ==
    \E admin \in Admins, u \in C10_Staff :
        /\ users[u].password # "secret"
        /\ users[u].password # C11_Uppercase(users[u].username)
        /\ users_requests_reset(DB, admin, u).db.users[u].password
               = C11_Uppercase(users[u].username)

----------------------------------------------------------------------------
(* Products *)

\* C12: restocking a product that is not deleted with a text that reads as a number
\* n >= 1 adds exactly n to its stock and sets its restock date to today; a number
\* below 1, a text that is no number, and a deleted or missing product each give a
\* failure and leave every product as it was.
C12_Restock ==
    \A today \in Days, p \in ProductIds :
        /\ \A n \in (0 - 1) .. MaxAddQty :
              LET r == update_product_quantity(DB, today, p, str(n))
              IN  IF n >= 1 /\ p \in DOMAIN products /\ ~products[p].is_deleted
                  THEN /\ r.res = "ok"
                       /\ r.db = [DB EXCEPT !.products[p].qty = products[p].qty + n,
                                            !.products[p].restock_date = today]
                  ELSE r.res # "ok" /\ r.db = DB
        /\ \A text \in NonNumbers :
              LET r == update_product_quantity(DB, today, p, text)
              IN  r.res # "ok" /\ r.db = DB

\* a product that has been restocked on the last day, above the stock a form can set
C12_Witness ==
    \E p \in DOMAIN products :
        /\ ~products[p].is_deleted
        /\ products[p].qty > MaxStock
        /\ products[p].restock_date = MaxDays

C13_Deleted == {p \in DOMAIN products : products[p].is_deleted}

\* every product request and add-to-cart that names p fails and changes nothing
C13_Refused(p) ==
    /\ delete_product(DB, p) = Response(DB, "failed")
    /\ toggle_product_status(DB, p) = Response(DB, "failed")
    /\ \A s \in ShopIds, qty \in StockValues, price \in Prices, cost \in Costs :
          update_product(DB, p, s, qty, price, cost) = Response(DB, "not_found")
    /\ \A today \in Days, text \in QtyTexts :
          LET r == update_product_quantity(DB, today, p, text)
          IN  r.res # "ok" /\ r.db = DB
    /\ \A caller \in Authenticated, qty \in AddQtys :
          add_to_cart(DB, caller, p, qty) = Response(DB, "not_found")

\* the delete request of an admin on a product that is not deleted
C13_SoftDelete(p) ==
    \A admin \in Admins :
        LET r == products_requests_delete(DB, admin, p)
        IN  /\ r.res = "ok"
            /\ r.db = [DB EXCEPT !.products[p].is_deleted = TRUE,
                                 !.products[p].suffixes = products[p].suffixes + 1]

\* C13: the soft delete of a product sets its deleted flag and appends "(deleted)" to
\* its name, the row stays; from then on every update, block toggle, restock, delete
\* and add-to-cart that names the product fails and changes nothing, so no step ever
\* changes a deleted product and the suffix is on its name exactly once.
C13_ProductSoftDelete ==
    /\ [](/\ \A p \in DOMAIN products \ C13_Deleted :
                products[p].suffixes = 0 /\ C13_SoftDelete(p)
          /\ \A p \in C13_Deleted : products[p].suffixes = 1 /\ C13_Refused(p))
    /\ [][\A p \in C13_Deleted : p \in DOMAIN products' /\ products'[p] = products[p]]_vars

\* a deleted product, still stored, whose second deletion is refused
C13_Witness ==
    \E p \in C13_Deleted :
        /\ products[p].suffixes = 1
        /\ \A admin \in Admins : products_requests_delete(DB, admin, p).res = "failed"

----------------------------------------------------------------------------
(* Ledgers *)

C14_Debts == {l \in DOMAIN ledger : ledger[l].kind = "Debts"}

\* the labels that have fewer than three characters between their blanks
C14_Short == {<<"a", "b">>, <<" ", "a", "b", " ">>}

\* the update has succeeded and has changed amount and paid of debt l, and of no
\* other row, to the given values
C14_Updated(r, l, amount, paid) ==
    /\ r.res = "ok"
    /\ r.db.ledger[l].amount = amount
    /\ r.db.ledger[l].paid = paid
    /\ \A o \in DOMAIN ledger \ {l} : r.db.ledger[o] = ledger[o]

\* C14: an update of a debt or loan with the paid field n: for n < 0 the paid total
\* grows by |n| and the amount stays, for n > 0 the amount grows by n and the paid
\* total stays, for n = 0 or an empty field both stay; with a label of fewer than
\* three characters the update fails and changes nothing.
C14_DebtUpdate ==
    \A l \in C14_Debts, names \in Labels :
        /\ \A n \in (0 - MaxPaid) .. MaxPaid :
              LET r == update_debt(DB, "Debts", l, names, str(n))
              IN  IF names \in C14_Short THEN r.res # "ok" /\ r.db = DB
                  ELSE IF n < 0
                       THEN C14_Updated(r, l, ledger[l].amount, ledger[l].paid - n)
                  ELSE IF n > 0
                       THEN C14_Updated(r, l, ledger[l].amount + n, ledger[l].paid)
                  ELSE C14_Updated(r, l, ledger[l].amount, ledger[l].paid)
        /\ LET r == update_debt(DB, "Debts", l, names, <<>>)
           IN  IF names \in C14_Short THEN r.res # "ok" /\ r.db = DB
               ELSE C14_Updated(r, l, ledger[l].amount, ledger[l].paid)

\* a debt that has been paid on and borrowed on
C14_Witness ==
    \E l \in C14_Debts : ledger[l].paid > 0 /\ ledger[l].amount > MaxAmount - 1

\* the rows of a ledger that are not deleted, and the total of their amounts as shown
C15_Live(kind) == {l \in DOMAIN ledger : ledger[l].kind = kind /\ ledger[l].deleted = FALSE}

C15_Total(rows) == format_number(100 * Sum([l \in rows |-> ledger[l].amount], rows))

\* the listing shows exactly the given rows, counts them and totals them
C15_Shows(page, rows) ==
    /\ page.data = rows
    /\ page.recordsTotal = Cardinality(rows)
    /\ page.total_amount = C15_Total(rows)

\* C15: a ledger row that has been soft-deleted stays in storage, and no listing
\* has it in its data, counts it in recordsTotal or adds it to the grand total:
\* the delete request keeps the row with its deleted flag set, and every listing
\* shows, counts and totals the rows that are not deleted and no others.
C15_SoftDeleteExclusion ==
    \A admin \in Admins :
        /\ \A kind \in LedgerKinds :
              /\ C15_Shows(transactions_page(DB, admin, kind).data, C15_Live(kind))
              /\ \A l \in C15_Live(kind) :
                    LET r == transactions_actions_delete(DB, admin, kind, l)
                    IN  /\ r.res = "ok"
                        /\ r.db = [DB EXCEPT !.ledger[l].deleted = TRUE]
                        /\ l \notin transactions_page(r.db, admin, kind).data.data
        /\ C15_Shows(expenses_page(DB, admin).data, C15_Live("Expenses"))
        /\ \A caller \in Authenticated :
              /\ expenses_page(DB, caller).data.data \subseteq C15_Live("Expenses")
              /\ \A l \in C15_Live("Expenses") :
                    LET r == expenses_actions_delete(DB, caller, l)
                    IN  /\ r.res = "ok"
                        /\ r.db = [DB EXCEPT !.ledger[l].deleted = TRUE]
                        /\ l \notin expenses_page(r.db, admin).data.data

\* a deleted row with an amount, still stored, and its listing empty with a zero total
C15_Witness ==
    \E l \in DOMAIN ledger, admin \in Admins :
        /\ ledger[l].deleted /\ ledger[l].amount > 0 /\ ledger[l].kind \in LedgerKinds
        /\ transactions_page(DB, admin, ledger[l].kind).data =
               [data |-> {}, recordsTotal |-> 0, total_amount |-> <<"0">>]

\* the expenses of another shop than the caller's, deleted or not
C16_Foreign(caller) ==
    {l \in DOMAIN ledger : ledger[l].kind = "Expenses" /\ ledger[l].shop # users[caller].shop}

\* C16 (the listing): the expenses listing of a caller who is no admin has the
\* expenses of the caller's own shop only.
C16_ListingOwnShop ==
    \A caller \in Authenticated \ Admins :
        expenses_page(DB, caller).data.data \cap C16_Foreign(caller) = {}

\* a member of staff whose listing leaves out an expense of another shop that is
\* not deleted
C16_Witness ==
    \E caller \in Authenticated \ Admins : \E l \in C16_Foreign(caller) :
        /\ ~ledger[l].deleted
        /\ l \notin expenses_page(DB, caller).data.data

\* C16: a caller who is no admin is shown the expenses of the own shop only:
\* neither the expenses listing nor the view action returns an expense of another
\* shop to such a caller.
C16_ExpenseVisibility ==
    \A caller \in Authenticated \ Admins : \A l \in C16_Foreign(caller) :
        /\ l \notin expenses_page(DB, caller).data.data
        /\ expenses_actions_view(DB, caller, l).res # "ok"

----------------------------------------------------------------------------
(* The shop of a sale *)

\* C17: every sale that the checkout of a user who is no admin has created belongs
\* to that user's own shop.
C17_SalesScoped ==
    \A s \in DOMAIN sales :
        ~users[sales[s].user].is_admin => sales[s].shop = users[sales[s].user].shop

----------------------------------------------------------------------------
(* Phone numbers *)

\* the accounts other than u that are not deleted and hold the phone
C18_Holders(u, phone) ==
    {v \in DOMAIN users \ {u} : ~users[v].deleted /\ users[v].phone = phone}

C18_Rejected(r) == r.res # "ok" /\ r.db = DB

\* C18: no two accounts that are not deleted hold the same phone, and a
\* registration, staff update, profile update or contact change that would give an
\* account a phone that another account that is not deleted holds is rejected and
\* changes nothing.
C18_PhoneUnique ==
    /\ \A u \in DOMAIN users :
          ~users[u].deleted /\ users[u].phone # None => C18_Holders(u, users[u].phone) = {}
    /\ \A phone \in Phones \ {None}, username \in Usernames, s \in ShopIds :
          /\ C18_Holders(seq.user, phone) # {} =>
                \A admin \in Admins :
                    C18_Rejected(users_requests_create(DB, admin, username, phone, s))
          /\ \A u \in DOMAIN users :
                C18_Holders(u, phone) # {} =>
                    /\ \A admin \in Admins :
                          C18_Rejected(users_requests_edit(DB, admin, u, username, phone, s))
                    /\ u \in Authenticated =>
                          /\ C18_Rejected(user_profile_page_update(DB, u, username, phone, s))
                          /\ C18_Rejected(user_profile_page_contact(DB, u, phone))

\* two accounts that are not deleted, one holds a phone and the other is refused it
C18_Witness ==
    \E u \in Authenticated, v \in DOMAIN users :
        /\ u # v /\ ~users[u].deleted /\ ~users[v].deleted
        /\ users[v].phone # None /\ users[u].phone = None
        /\ user_profile_page_contact(DB, u, users[v].phone).res = "taken"

----------------------------------------------------------------------------
(* The helpers of the listings *)

\* a text of digits, and a text that has no digit at all
C19_Digits(text) == text # <<>> /\ \A i \in 1 .. Len(text) : text[i] \in {"0", "1", "5"}

C19_NoDigit(text) == \A i \in 1 .. Len(text) : text[i] \notin {"0", "1", "5"}

\* the three forms of a numeric search: "-N", "N-", and N whole or with decimals
C19_UpTo(text) == text[1] = "-" /\ C19_Digits(Tail(text))

C19_From(text) ==
    text[Len(text)] = "-" /\ C19_Digits(SubSeq(text, 1, Len(text) - 1))

C19_Plain(text) ==
    \/ C19_Digits(text)
    \/ \E i \in 2 .. (Len(text) - 1) :
          /\ text[i] = "."
          /\ C19_Digits(SubSeq(text, 1, i - 1))
          /\ C19_Digits(SubSeq(text, i + 1, Len(text)))

\* the row matches exactly when its value is in the range, or is the number, that
\* the search names
C19_Ranges ==
    /\ C19_UpTo(call.search) =>
          (call.match <=> call.value <= 100 * int(Tail(call.search)))
    /\ C19_From(call.search) =>
          (call.match <=>
              call.value >= 100 * int(SubSeq(call.search, 1, Len(call.search) - 1)))
    /\ C19_Plain(call.search) =>
          (call.match <=>
              call.value * Pow10(float(call.search).scale) = 100 * float(call.search).num)

\* C19 (the three forms): with the numeric filter a search "-N" matches exactly the
\* rows whose value is at most N, "N-" exactly those whose value is at least N, and
\* a whole or decimal N exactly those whose value equals N.
C19_RangesAndExact == call.done => C19_Ranges

\* a row whose value is the bound of the search "-N" and that matches
C19_Witness ==
    /\ call.done /\ call.match
    /\ C19_UpTo(call.search)
    /\ call.value = 100 * int(Tail(call.search))

\* C19: with the numeric filter "-N" matches the values at most N, "N-" the values
\* at least N, a whole or decimal N the values equal to N, and a malformed search,
\* here one that has no digit at all, matches no row.
C19_NumericFilter ==
    call.done => C19_Ranges /\ (C19_NoDigit(call.search) => ~call.match)

\* the value as the claim shows it: the whole part in groups of three digits, then
\* the decimals without their trailing zeros
C20_Expected(cents) ==
    Sign(cents) \o Grouped(abs(cents) \div 100)
    \o (IF abs(cents) % 100 = 0 THEN <<>>
        ELSE IF abs(cents) % 10 = 0 THEN <<".", DigitChars[((abs(cents) \div 10) % 10) + 1]>>
        ELSE <<".", DigitChars[((abs(cents) \div 10) % 10) + 1],
               DigitChars[(abs(cents) % 10) + 1]>>)

\* C20 (what holds): a whole number is shown in groups of three digits and without
\* decimals; a value that is not whole is shown with its one or two decimals, the
\* trailing zero trimmed, and its whole part is shown without separators.
C20_Decimals ==
    call.done =>
        IF abs(call.value) % 100 = 0 THEN call.shown = C20_Expected(call.value)
        ELSE call.shown = replace(C20_Expected(call.value), ",")

\* a value of one decimal below a thousand, shown as the claim shows it
C20_Witness ==
    /\ call.done
    /\ call.value = 750
    /\ call.shown = <<"7", ".", "5">>

\* C20: every value is shown with thousands separators, a whole number without
\* decimals, a value that is not whole with one or two decimals and no trailing
\* zeros: 1000 as "1,000", 1500.50 as "1,500.5", 1500.23 as "1,500.23".
C20_Formatter == call.done => call.shown = C20_Expected(call.value)

----------------------------------------------------------------------------
(* Properties of the stock and of the sales *)

\* C21: product stock is never negative: in every reachable state every
\* product's quantity is at least 0, whatever the sequence of product edits,
\* add-to-cart requests, checkouts, removals of sale lines and deletions of sales
C21_StockNeverNegative ==
    \A p \in DOMAIN products : products[p].qty >= 0

\* the requests that have restocked product p, and what they have added to it
C22_Restocked(p) ==
    {r \in Requests : call[r].pc = "done" /\ call[r].res = "ok" /\ call[r].product_id = p}

C22_Added(p) == Sum([r \in Requests |-> call[r].qty_value], C22_Restocked(p))

\* a restock that is alone with the database from its SELECT to its UPDATE
\* does what update_product_quantity does in one piece
C22_Alone ==
    \A today \in Days, product_id \in ProductIds, new_qty \in QtyTexts :
        LET whole  == update_product_quantity(DB, today, product_id, new_qty)
            loaded == restock_load(DB, product_id, new_qty)
        IN  IF loaded.res = "loaded"
            THEN /\ whole.res = "ok"
                 /\ restock_save(DB, loaded, today).db = whole.db
            ELSE loaded.res = whole.res /\ whole.db = DB

\* C22: restock is not protected against concurrent updates: a restock saves
\* the quantity that it has read plus its own increment, whatever has been
\* saved since it read, so that of two restocks that both read the quantity
\* before either saved, one increment is overwritten
C22_RestockLostUpdate ==
    /\ []C22_Alone
    /\ [][\A r \in Requests :
             call[r].pc = "loaded" /\ call'[r].pc = "done" =>
                 /\ products'[call[r].product_id].qty = call[r].product.qty + call[r].qty_value
                 /\ \A o \in C22_Restocked(call[r].product_id) :
                       call[o].product.qty = call[r].product.qty =>
                           products'[call[r].product_id].qty
                               < call[r].product.qty + call[r].qty_value + call[o].qty_value]_vars

\* two restocks of the product have answered and the stock is smaller than
\* the stock before them plus both increments
C22_Witness ==
    \E p \in DOMAIN products :
        /\ Cardinality(C22_Restocked(p)) = 2
        /\ \A r \in C22_Restocked(p) : call[r].product.qty = MaxStock
        /\ products[p].qty < MaxStock + C22_Added(p)

\* a checkout that is alone with the database from its first SELECT to its
\* last DELETE does what checkout does in one piece
C23_Alone ==
    \A caller \in Authenticated :
        LET whole  == checkout(DB, caller)
            loaded == checkout_load(DB, caller)
            header == checkout_header(DB, loaded.frame)
        IN  IF loaded.res = "loaded"
            THEN whole.res = "ok" /\ checkout_rest(header.db, header.frame) = whole.db
            ELSE loaded.res = whole.res /\ loaded.names = whole.names /\ whole.db = DB

\* the requests whose checkout has failed in its second loop, and the requests
\* that have written nothing yet
C23_Failed == {r \in Requests : call[r].pc = "done" /\ call[r].res = "failed"}
C23_Quiet  == {r \in Requests : call[r].pc \in {"idle", "header", "done"} /\ call[r].sale_id = None}

\* the rows of a request's cart that its loop is through with, and those
\* after the one that it is at
C23_Processed(f) == {c \in DOMAIN f.lines : \A k \in 1 .. Len(f.rows) : f.rows[k] # c}
C23_Remaining(f) == {f.rows[k] : k \in 2 .. Len(f.rows)}

\* the lines of the frame's sale for the product of cart row c
C23_LinesOf(f, c) ==
    {i \in ItemsOf(DB, f.sale_id) : items[i].product = f.lines[c].product}

\* C23: checkout is not all-or-nothing: when a statement of its per-line loop
\* fails, the request reports the failure and the sale header stays with the
\* totals of the whole cart, the rows already processed stay applied (line
\* item created, stock decremented, cart row deleted), the row at which it
\* failed is still in the cart and the rows after it are untouched
C23_CheckoutPartlyApplied ==
    /\ C23_Alone
    /\ \A r \in C23_Failed :
          (Requests \ {r}) \subseteq C23_Quiet =>
              LET f == call[r]
              IN  /\ f.sale_id \in DOMAIN sales
                  /\ sales[f.sale_id] = [user |-> f.user, shop |-> f.shop,
                                         amount |-> f.grand_amount, profit |-> f.profit_count]
                  /\ f.rows # <<>> /\ Head(f.rows) \in DOMAIN cart
                  /\ \A c \in C23_Processed(f) :
                        /\ c \notin DOMAIN cart
                        /\ products[f.lines[c].product].qty = f.prods[c].qty - f.lines[c].qty
                        /\ \E i \in C23_LinesOf(f, c) : items[i].qty = f.lines[c].qty
                  /\ \A c \in C23_Remaining(f) :
                        /\ c \in DOMAIN cart /\ cart[c] = f.lines[c]
                        /\ products[f.lines[c].product] = f.prods[c]
                        /\ C23_LinesOf(f, c) = {}

\* a checkout has failed at the INSERT of its second line: the header and the
\* first line are there, the second row is in the cart as it was
C23_Witness ==
    \E r \in C23_Failed :
        /\ (Requests \ {r}) \subseteq C23_Quiet
        /\ C23_Processed(call[r]) # {}
        /\ call[r].sale_id \in DOMAIN sales
        /\ LET c == Head(call[r].rows)
           IN  /\ cart[c] = call[r].lines[c]
               /\ products[call[r].lines[c].product] = call[r].prods[c]
               /\ C23_LinesOf(call[r], c) = {}

\* the quantity of product p in the line items of all sales
C26_Sold(p) ==
    LET lines == {i \in DOMAIN items : items[i].product = p}
    IN  Sum([i \in lines |-> items[i].qty], lines)

\* every user has at most one checkout under way or answered
C26_TwoUsers ==
    \A r, o \in Requests : r # o /\ call[r].user # None => call[r].user # call[o].user

\* C26: no overselling under concurrent checkout: once the checkouts of the
\* carts of different users with the same product have answered, none of them
\* with a failure, the quantity in the line items of the product is at most the
\* stock that it had before them, and its stock is that stock less the
\* quantity sold
C26_NoOverselling ==
    (/\ C26_TwoUsers
     /\ \A r \in Requests : call[r].pc \in {"idle", "done"} /\ call[r].res # "failed") =>
        \A p \in DOMAIN products :
            /\ C26_Sold(p) <= MaxStock
            /\ products[p].qty = MaxStock - C26_Sold(p)

\* C24: every cart row and every sale line item has a quantity above 0:
\* add-to-cart stores no quantity that is zero or negative, and so checkout
\* records no line that raises the stock or has an amount of zero or less
C24_PositiveQuantities ==
    /\ \A c \in DOMAIN cart : cart[c].qty > 0
    /\ \A i \in DOMAIN items : items[i].qty > 0 /\ items[i].price * items[i].qty > 0

\* the totals of the line items that a sale has now
C25_Amount(x) == Sum([i \in ItemsOf(DB, x) |-> items[i].price * items[i].qty], ItemsOf(DB, x))
C25_Profit(x) == Sum([i \in ItemsOf(DB, x) |-> items[i].profit], ItemsOf(DB, x))

\* C25, the part that holds: each sale's stored amount is the sum of price
\* times qty of its current line items
C25_AmountOfLines ==
    \A x \in DOMAIN sales : sales[x].amount = C25_Amount(x)

\* a sale that has lost one of its lines and keeps another
C25_Witness ==
    \E x \in DOMAIN sales :
        /\ Cardinality(ItemsOf(DB, x)) = 1
        /\ seq.item > 2
        /\ sales[x].amount = C25_Amount(x)

\* C25: sale header totals stay consistent with the lines: each sale's stored
\* amount is the sum of price times qty, and its stored profit the sum of the
\* profits, of its current line items, also after a line item has been
\* removed from a sale that keeps other lines
C25_TotalsOfLines ==
    \A x \in DOMAIN sales :
        /\ sales[x].amount = C25_Amount(x)
        /\ sales[x].profit = C25_Profit(x)

\* C27: checkout never sells a soft-deleted product: a checkout creates no
\* line item and lowers no stock for a product whose deleted flag is set when
\* it runs, also where the product was added to the cart before it was deleted
C27_NoSaleOfDeleted ==
    \A caller \in Authenticated :
        LET r == sales_actions_checkout(DB, caller)
        IN  /\ \A i \in (DOMAIN r.db.items) \ DOMAIN items :
                  ~products[r.db.items[i].product].is_deleted
            /\ \A p \in DOMAIN products :
                  products[p].is_deleted => r.db.products[p].qty = products[p].qty

\* C28: no empty sale persists: in every reachable state every sale has at
\* least one line item, whatever the sequence of checkouts, removals of sale
\* lines, deletions of sales, product edits and deletions of shops
C28_NoEmptySale ==
    \A x \in DOMAIN sales : ItemsOf(DB, x) # {}

----------------------------------------------------------------------------
(* Properties of the ledgers' balances and of the pages of a listing *)

\* C29, the part that holds: the paid total of a debt is never below 0
C29_PaidNotNegative ==
    \A l \in C14_Debts : ledger[l].paid >= 0

\* a debt on which a payment has been booked
C29_Witness ==
    \E l \in C14_Debts : ledger[l].paid > 0 /\ ledger[l].paid <= ledger[l].amount

\* C29: no overpayment: for every debt and every loan the paid total is
\* between 0 and the amount in every reachable state, so that the balance
\* that the listing shows, amount less paid, is never negative
C29_NoOverpayment ==
    \A l \in C14_Debts :
        /\ 0 <= ledger[l].paid /\ ledger[l].paid <= ledger[l].amount
        /\ ledger[l].amount - ledger[l].paid >= 0

\* the rows start .. start+length-1 of the list, counted from 0; all of them
\* for a negative length
C30_Rows(data, start, length) ==
    IF length < 0 THEN [k \in 1 .. Len(data) |-> data[k]]
    ELSE LET last == IF start + length < Len(data) THEN start + length ELSE Len(data)
         IN  [k \in 1 .. (IF last > start THEN last - start ELSE 0) |-> data[start + k]]

\* the page shows the rows that were asked for, in their order
C30_RowsOfPage ==
    /\ Len(call.page) = Len(C30_Rows(call.data, call.start, call.length))
    /\ \A k \in 1 .. Len(call.page) :
          call.page[k].id = C30_Rows(call.data, call.start, call.length)[k]

\* the start is the first row of a page of the length asked for
C30_Aligned ==
    \/ call.start = 0
    \/ call.length > 0 /\ call.start % call.length = 0

\* C30, the part that holds: the page is the rows start .. start+length-1 of
\* the list (all rows for a negative length), and where start is a multiple
\* of length the count of the i-th row of the page is start + i + 1
C30_PageAndAlignedCount ==
    call.done =>
        /\ C30_RowsOfPage
        /\ C30_Aligned => \A k \in 1 .. Len(call.page) : call.page[k].count = call.start + k

\* the second page of two rows of a list of four
C30_Witness ==
    /\ call.done
    /\ call.start = 2 /\ call.length = 2 /\ Len(call.data) = 4
    /\ call.page = <<[count |-> 3, id |-> 2], [count |-> 4, id |-> 1]>>

\* C30: listing row numbering matches the row's position: for every request
\* with start >= 0 and any length the count of the i-th row of the page (i
\* from 0) is start + i + 1, and the page is the rows start .. start+length-1
\* of the filtered and sorted list (all rows for a negative length)
C30_RowNumbering ==
    call.done =>
        /\ C30_RowsOfPage
        /\ \A k \in 1 .. Len(call.page) : call.page[k].count = call.start + k

====
